---------------------------- MODULE Spec2Model ----------------------------
(***************************************************************************)
(* Model of the mirror manager of smart-git-proxy (package mirror):        *)
(* Mirror.EnsureRepo with its two singleflight keyspaces ("clone:<key>"    *)
(* and "sync:<key>"), the staleness check, the .requires-auth sentinel,    *)
(* validateAuth with the on-disk auth cache, and the Git subprocesses      *)
(* (clone, fetch) whose outcome depends on the upstream.                   *)
(*                                                                         *)
(* Every caller is one goroutine running EnsureRepo.  The steps of a call  *)
(* are the points at which it reads or writes shared state (the mirror     *)
(* directory, lastSync, the singleflight groups, the auth cache file) or   *)
(* blocks (on a Git subprocess, on another caller's flight).               *)
(***************************************************************************)
EXTENDS Integers, Sequences, FiniteSets, TLC

----------------------------------------------------------------------------
(* Bounds of the model *)

NumCallers == 2        \* goroutines that call EnsureRepo
NumRunners == 2        \* goroutines that run maintenance
MaxCalls   == 3        \* EnsureRepo calls started in one behaviour
MaxTime    == 3        \* the clock runs from 0 to MaxTime (seconds)

(* Program constants *)

StaleAfter == 2        \* sync-stale-after, default "2s"

StatusHit   == "mirror-hit"
StatusClone == "mirror-clone"
StatusSync  == "mirror-sync"

StatusUnauthorized == 401      \* http.StatusUnauthorized

----------------------------------------------------------------------------
(* The environment: callers, repositories, headers, the upstream *)

Callers == 1..NumCallers

Root == "/var/lib/gitproxy/mirrors"

\* (host, owner, repo) triples the callers ask for
Repos == { <<"github.com", "acme", "app">> }

\* Authorization header values of the requests: none, and a token
NoAuth   == ""
GoodAuth == "Bearer XYZ"
Headers  == {NoAuth, GoodAuth}

\* The Authorization values the upstream accepts for a private repository.
UpstreamAccepts == {GoodAuth}

\* What the upstream answers to GET <url>/info/refs without credentials:
\* an HTTP status, or NetErr when http.Get itself returns an error.
NetErr == 0
ProbeAnswers == {200, 401, 404, NetErr}

NoTime == -1           \* lastSync has no entry for the key
NoAnswer == -1         \* no probe was made

NoErr       == "nil"
ErrClone    == "git clone failed"
ErrAuth     == "authentication required"

----------------------------------------------------------------------------
(* State *)

VARIABLES
    call,        \* per caller: the EnsureRepo call it is running (or ran last)
    dir,         \* per repo: the mirror directory on disk
    sentinel,    \* per repo: <repoPath>/.requires-auth exists
    lastSync,    \* per repo: Mirror.lastSync (a time, or NoTime)
    authCache,   \* the auth cache file: present or not, and the digests in it
    now,         \* the clock
    upstream,    \* what the upstream answers to an unauthenticated probe
    liveClones,  \* per repo: cloneRepo invocations running or succeeded
    insertedOn,  \* <<digest, probe answer>> of every addAuthCache so far
    calls,       \* number of EnsureRepo calls started so far
    cfg,         \* the server's configuration (fixed at start)
    statusCache, \* Server.statusCache: per repo key, the last status stored
    packCache,   \* Server.packCache: the repo keys with a cached pack file
    resp,        \* the response to the request handled last
    opt,         \* per maintenance goroutine: its optimizeRepo run
    procs,       \* the Git subprocesses started so far (command, environment)
    lru,         \* the LRU store: per key, the mirror directory, the
                 \* singleflight slot held for the key, and lastAccess
    evictPending, \* a MaybeEvict run was started (or waits to retry)
    post,        \* per handler goroutine: the git-upload-pack POST it serves
    packFiles,   \* Server.packCache: per cache key, the pack file stored
                 \* last (files are numbered as they are built; 0: no entry)
    repoLocks,   \* Mirror.repoLocks: per repo, the handler holding the mutex
    files,       \* response cache: the files under the cache root (size,
                 \* modification time), by name
    writers      \* response cache: per goroutine, the Writer it holds

\* the state of the mirror manager
mirrorVars == <<call, dir, sentinel, lastSync, authCache, now, upstream,
                liveClones, insertedOn, calls>>

\* the state of the HTTP server in front of it
serverVars == <<cfg, statusCache, packCache, resp>>

\* the state of the background and one-shot maintenance
maintVars == <<opt, procs>>

\* the state of the LRU store of the mirrors (Cache)
lruVars == <<lru, evictPending>>

\* what a step of EnsureRepo, a request handler, a maintenance step leave
\* alone
\* the state of the git-upload-pack POST handlers
packVars == <<post, packFiles, repoLocks>>

\* the state of the response cache (package cache)
cacheVars == <<files, writers>>

beyondMirror == <<serverVars, maintVars, lruVars, packVars, cacheVars>>
beyondServer == <<maintVars, lruVars, packVars, cacheVars>>
beyondMaint  == <<lruVars, packVars, cacheVars>>

vars == <<mirrorVars, serverVars, maintVars, lruVars, packVars, cacheVars>>

\* (an auth cache that keeps the header itself)
Sha1Raw(h) == h

\* sha1.Sum([]byte(authHeader)): one digest per header value (first bytes
\* of the real digests), injective on Headers
Sha1(h) ==
    CASE h = NoAuth   -> "da39a3ee"
      [] h = GoodAuth -> "8fe512fc"

Digests == { Sha1(h) : h \in Headers }

\* fmt.Sprintf("%s/%s/%s", host, owner, repo)
RepoKey(r) == <<r[1], "/", r[2], "/", r[3]>>

\* filepath.Join(m.root, host, owner, repo+".git"), as its components
RepoPath(r) == <<Root, r[1], r[2], r[3], ".git">>

NoPath == <<>>         \* the empty path "" of an error return
NoRepo == <<>>

NoRet == [path |-> NoPath, status |-> "", err |-> NoErr]

\* no request
NoReq == [path |-> <<>>, service |-> "", hdr |-> NoAuth, shallow |-> FALSE]

IdleCall ==
    [pc |-> "idle", key |-> NoRepo, hdr |-> NoAuth, ret |-> NoRet,
     syncErr |-> "none", fetch |-> 0, up |-> NoAnswer, cached |-> FALSE,
     probed |-> FALSE, loc |-> {}, sawAuth |-> FALSE, stale |-> FALSE,
     flight |-> "none", cancelled |-> FALSE]

\* a second repository, for the runs with two keys
MoreRepos == Repos \cup { <<"github.com", "acme", "lib">> }

\* New: no call, no mirror of the repositories R on disk, nothing synced
MirrorInitOn(R) ==
    /\ call = [c \in Callers |-> IdleCall]
    /\ dir = [r \in R |-> "absent"]
    /\ sentinel = [r \in R |-> FALSE]
    /\ lastSync = [r \in R |-> NoTime]
    /\ authCache = [present |-> FALSE, digests |-> {}]
    /\ now = 0
    /\ upstream \in ProbeAnswers
    /\ liveClones = [r \in R |-> 0]
    /\ insertedOn = {}
    /\ calls = 0

MirrorInit == MirrorInitOn(Repos)

\* the keys under which requests for the repository could come to be
\* mirrored: the repository's key, and the key with the .git suffix kept
MirrorKeys == Repos \cup { <<"github.com", "acme", "app.git">> }

\* the maintenance goroutines, none of them running
Runners == 1..NumRunners

\* failed: a Git subprocess of the run exited non-zero; code: the exit
\* code of the process, once a one-shot run is over
IdleRun == [pc |-> "idle", full |-> FALSE, via |-> "none", failed |-> FALSE,
            code |-> 0]

MaintInit ==
    /\ opt = [g \in Runners |-> IdleRun]
    /\ procs = {}

\* the keys of the mirrors the LRU store knows, none on disk yet
Keys == {"github.com/acme/app", "github.com/acme/lib", "github.com/acme/web"}

LruInit ==
    /\ lru = [k \in Keys |-> [dir |-> "absent", slot |-> "none",
                               lastAccess |-> 0]]
    /\ evictPending = FALSE

\* The negotiation a git-upload-pack request carries: the number of want
\* lines, the depth of its deepen line (0: none) and whether it has have
\* lines.
Payloads ==
    { [wants |-> 1, deepen |-> 1, have |-> FALSE],
      [wants |-> 1, deepen |-> 1, have |-> TRUE],
      [wants |-> 2, deepen |-> 1, have |-> FALSE],
      [wants |-> 1, deepen |-> 0, have |-> FALSE] }

\* the POSTs: the repo of the path, Content-Encoding: gzip or none, and the
\* negotiation; the body on the wire is compressed as the header says
PackRequests == [repo : MoreRepos, gzip : BOOLEAN, payload : Payloads]

NoPackReq == [repo |-> NoRepo, gzip |-> FALSE,
              payload |-> [wants |-> 0, deepen |-> 0, have |-> FALSE]]

\* bytes: a negotiation, gzip-compressed or plain
Bytes(gz, p) == [gz |-> gz, data |-> p]

\* the shape the cached-pack path serves: no have line, exactly one want,
\* a deepen line of depth 1
Eligible(p) == ~p.have /\ p.wants = 1 /\ p.deepen = 1

\* repoKey + ":" + want + ":" + sha256(body), of the decompressed body
CacheKey(repo, body) == <<repo, body.data>>

PackKeys == { CacheKey(r, Bytes(FALSE, p)) :
                r \in MoreRepos, p \in { x \in Payloads : Eligible(x) } }

NoAnswerYet == [from |-> "none", data |-> NoPackReq.payload, file |-> 0]

IdlePost == [pc |-> "idle", req |-> NoPackReq,
             body |-> Bytes(FALSE, NoPackReq.payload), resp |-> NoAnswerYet]

PostInit ==
    /\ post = [h \in Callers |-> IdlePost]
    /\ packFiles = [k \in PackKeys |-> 0]
    /\ repoLocks = [r \in MoreRepos |-> 0]

\* a goroutine that holds no Writer
IdleWriter == [pc |-> "idle", final |-> <<>>, written |-> 0, err |-> FALSE]

\* cache.New: an empty cache root, no Writer
CacheInit ==
    /\ files = <<>>
    /\ writers = [w \in Callers |-> IdleWriter]

----------------------------------------------------------------------------
(* Helpers of EnsureRepo *)

\* (a clone flight that clones without looking at the directory)
RepoMissingUnchecked(r) == TRUE

\* os.Stat(repoPath) answers "does not exist"
RepoMissing(r) == dir[r] = "absent"

\* (one clone slot for all keys)
CloneInFlightAnyKey(r) == \E c \in Callers : call[c].pc = "cloning"

\* singleflight: a call for "clone:<key>" is in flight (its leader is
\* inside cloneRepo)
CloneInFlight(r) == \E c \in Callers : call[c].pc = "cloning" /\ call[c].key = r

\* singleflight: a call for "sync:<key>" is in flight
SyncInFlight(r) == \E c \in Callers : call[c].pc = "syncing" /\ call[c].key = r

SyncLeader(r) == CHOOSE c \in Callers : call[c].pc = "syncing" /\ call[c].key = r

\* (a mirror that is stale from staleAfter on)
IsStaleFrom(r) ==
    IF lastSync[r] = NoTime THEN TRUE ELSE now - lastSync[r] >= StaleAfter

\* Mirror.isStale
IsStale(r) ==
    IF lastSync[r] = NoTime THEN TRUE ELSE now - lastSync[r] > StaleAfter

\* Mirror.requiresAuth
RequiresAuth(r) == sentinel[r]

\* git clone / git fetch with http.extraheader = Authorization: h can read
\* the upstream: it is reachable and serves the repository to this header.
UpstreamGrants(h) ==
    \/ upstream = 200
    \/ upstream = StatusUnauthorized /\ h \in UpstreamAccepts

OkRet(r, st) == [path |-> RepoPath(r), status |-> st, err |-> NoErr]
ErrRet(e)    == [path |-> NoPath, status |-> "", err |-> e]

\* the callers blocked in Do("clone:<key>") behind the leader
CloneWaiters(r) == { c \in Callers : call[c].pc = "cloneWait" /\ call[c].key = r }
SyncWaiters(r)  == { c \in Callers : call[c].pc = "syncWait" /\ call[c].key = r }

\* The status a caller that shared the leader's clone gets from Do: the
\* leader's result value.
SharedCloneStatus == StatusClone

\* The return statement that ends the stale branch of EnsureRepo.
StaleBranchStatus(syncErr) == StatusSync

----------------------------------------------------------------------------
(* EnsureRepo, step by step *)

\* No call is at its return statement. A call that reached "done" holds what
\* EnsureRepo returns; Return hands it to the caller before anything else
\* happens, so the record of a finished call is visible in exactly one state.
Quiet == \A c \in Callers : call[c].pc # "done"

\* The same for the HTTP server: the response to a request is visible in
\* exactly one state, then it is on its way to the client (Deliver).
NoResp == [req |-> NoReq, code |-> 0, status |-> "", body |-> "none",
           ensured |-> FALSE]

Idle == Quiet /\ resp = NoResp

\* EnsureRepo is called and reaches m.group.Do("clone:"+key, ...).
\*  - a clone for the key is in flight: the caller blocks behind it;
\*  - no flight and os.Stat says the directory is missing: the caller is the
\*    leader and starts cloneRepo (git creates the directory);
\*  - no flight and the directory exists: Do returns StatusHit at once, the
\*    caller touches the LRU, checks isStale and, when fresh, requiresAuth.
Start(c, r, h) ==
    /\ Quiet
    /\ call[c].pc = "idle"
    /\ \A d \in Callers : d < c => call[d].pc # "idle"
    /\ calls < MaxCalls
    /\ calls' = calls + 1
    /\ LET base == [IdleCall EXCEPT !.key = r, !.hdr = h,
                                    !.sawAuth = sentinel[r]]
       IN  IF CloneInFlight(r)
           THEN /\ call' = [call EXCEPT ![c] =
                       [base EXCEPT !.pc = "cloneWait", !.flight = "follower"]]
                /\ UNCHANGED <<dir, liveClones>>
           ELSE IF RepoMissing(r)
           THEN /\ call' = [call EXCEPT ![c] =
                       [base EXCEPT !.pc = "cloning", !.flight = "leader"]]
                /\ dir' = [dir EXCEPT ![r] = "partial"]
                /\ liveClones' = [liveClones EXCEPT ![r] = @ + 1]
           ELSE /\ call' = [call EXCEPT ![c] =
                       IF IsStale(r)
                       THEN [base EXCEPT !.pc = "syncDo", !.stale = TRUE]
                       ELSE IF RequiresAuth(r)
                       THEN [base EXCEPT !.pc = "authProbe"]
                       ELSE [base EXCEPT !.pc = "done", !.up = upstream,
                                         !.ret = OkRet(r, StatusHit)]]
                /\ UNCHANGED <<dir, liveClones>>
    /\ UNCHANGED beyondMirror
    /\ UNCHANGED <<sentinel, lastSync, authCache, now, upstream,
                   insertedOn>>

\* The points where a call of EnsureRepo blocks: inside Do behind the
\* leader, or as leader on git or on the upstream's answer to http.Get.
Blocked(c) ==
    call[c].pc \in {"cloneWait", "cloning", "syncWait", "syncing", "authProbe"}

\* The caller cancels the context it passed to EnsureRepo (the client went
\* away, the request timed out). The record keeps the cancellation while
\* the call is blocked: past these points EnsureRepo never reads the context.
Cancel(c) ==
    /\ Quiet
    /\ Blocked(c)
    /\ ~call[c].cancelled
    /\ call' = [call EXCEPT ![c].cancelled = TRUE]
    /\ UNCHANGED beyondMirror
    /\ UNCHANGED <<dir, sentinel, lastSync, authCache, now, upstream,
                   liveClones, insertedOn, calls>>

\* (a Do whose followers give up with their own context's error)
AfterCloneFlightOwnCtx(c, r, leaderRet) ==
    [d \in Callers |->
        IF d = c
        THEN [call[d] EXCEPT !.pc = "done", !.up = upstream, !.ret = leaderRet]
        ELSE IF d \in CloneWaiters(r)
        THEN [call[d] EXCEPT !.pc = "done", !.up = upstream,
                 !.ret = IF call[d].cancelled THEN ErrRet(ErrClone)
                         ELSE leaderRet]
        ELSE call[d]]

\* The leader's and the waiters' calls after the clone flight ended with
\* result `leaderRet` for the leader: the waiters get the same error, or on
\* success the status Do hands to them.
AfterCloneFlight(c, r, leaderRet) ==
    [d \in Callers |->
        IF d = c
        THEN [call[d] EXCEPT !.pc = "done", !.up = upstream, !.ret = leaderRet]
        ELSE IF d \in CloneWaiters(r)
        THEN [call[d] EXCEPT !.pc = "done", !.up = upstream,
                 !.ret = IF leaderRet.err = NoErr
                         THEN OkRet(r, SharedCloneStatus)
                         ELSE leaderRet]
        ELSE call[d]]

\* git clone exits 0: cloneRepo marks the repo when it was cloned with auth
\* (`marked`: os.WriteFile of the sentinel succeeded; a failure is logged
\* and the clone goes on), the flight function stores lastSync and returns
\* StatusClone; the leader and every waiter return (repoPath, status, nil).
CloneSucceed(c, marked) ==
    LET r == call[c].key IN
    /\ Quiet
    /\ call[c].pc = "cloning"
    /\ UpstreamGrants(call[c].hdr)
    /\ call[c].hdr = NoAuth => marked
    /\ dir' = [dir EXCEPT ![r] = "complete"]
    /\ sentinel' = [sentinel EXCEPT ![r] =
                        IF call[c].hdr # NoAuth /\ marked THEN TRUE ELSE @]
    /\ lastSync' = [lastSync EXCEPT ![r] = now]
    /\ call' = AfterCloneFlight(c, r, OkRet(r, StatusClone))
    /\ UNCHANGED beyondMirror
    /\ UNCHANGED <<authCache, now, upstream, liveClones,
                   insertedOn, calls>>

\* git clone exits non-zero (upstream refuses, network, disk): git removes
\* what it created; the leader and every waiter return the error.
CloneFail(c) ==
    LET r == call[c].key IN
    /\ Quiet
    /\ call[c].pc = "cloning"
    /\ dir' = [dir EXCEPT ![r] = "absent"]
    /\ call' = AfterCloneFlight(c, r, ErrRet(ErrClone))
    /\ liveClones' = [liveClones EXCEPT ![r] = @ - 1]
    /\ UNCHANGED beyondMirror
    /\ UNCHANGED <<sentinel, lastSync, authCache, now, upstream,
                   insertedOn, calls>>

\* The leader's context is cancelled: exec.CommandContext kills git
\* (SIGKILL), which cannot clean up: the directory is gone or left as the
\* killed clone had it.
CloneKilled(c) ==
    LET r == call[c].key IN
    /\ Quiet
    /\ call[c].pc = "cloning"
    /\ call[c].cancelled
    /\ \E left \in {"absent", "partial"} : dir' = [dir EXCEPT ![r] = left]
    /\ call' = AfterCloneFlight(c, r, ErrRet(ErrClone))
    /\ liveClones' = [liveClones EXCEPT ![r] = @ - 1]
    /\ UNCHANGED beyondMirror
    /\ UNCHANGED <<sentinel, lastSync, authCache, now, upstream,
                   insertedOn, calls>>

\* The caller saw the mirror stale and reaches m.group.Do("sync:"+key, ...):
\* it joins the fetch in flight, or leads a new one (git fetch starts).
SyncDo(c) ==
    LET r == call[c].key IN
    /\ Quiet
    /\ call[c].pc = "syncDo"
    /\ IF SyncInFlight(r)
       THEN call' = [call EXCEPT ![c] = [@ EXCEPT !.pc = "syncWait",
                            !.fetch = SyncLeader(r)]]
       ELSE call' = [call EXCEPT ![c] = [@ EXCEPT !.pc = "syncing",
                            !.fetch = c]]
    /\ UNCHANGED beyondMirror
    /\ UNCHANGED <<dir, sentinel, lastSync, authCache, now, upstream,
                   liveClones, insertedOn, calls>>

\* (a Do that hands the fetch's result to the leader alone)
AfterSyncFlightLeaderOnly(c, r, e) ==
    [d \in Callers |->
        IF d = c
        THEN [call[d] EXCEPT !.pc = "afterSync", !.up = upstream,
                             !.syncErr = e, !.cancelled = FALSE]
        ELSE call[d]]

\* The leader's and the waiters' calls after the fetch flight ended with `e`.
AfterSyncFlight(c, r, e) ==
    [d \in Callers |->
        IF d = c \/ d \in SyncWaiters(r)
        THEN [call[d] EXCEPT !.pc = "afterSync", !.up = upstream,
                             !.syncErr = e, !.cancelled = FALSE]
        ELSE call[d]]

\* git fetch exits 0; Do returns nil to the leader and to every waiter.
SyncSucceed(c) ==
    LET r == call[c].key IN
    /\ Quiet
    /\ call[c].pc = "syncing"
    /\ UpstreamGrants(call[c].hdr)
    /\ dir[r] # "absent"
    /\ call' = AfterSyncFlight(c, r, "nil")
    /\ UNCHANGED beyondMirror
    /\ UNCHANGED <<dir, sentinel, lastSync, authCache, now, upstream,
                   liveClones, insertedOn, calls>>

\* git fetch exits non-zero or is killed; Do returns the error to all.
SyncFail(c) ==
    LET r == call[c].key IN
    /\ Quiet
    /\ call[c].pc = "syncing"
    /\ call' = AfterSyncFlight(c, r, "err")
    /\ UNCHANGED beyondMirror
    /\ UNCHANGED <<dir, sentinel, lastSync, authCache, now, upstream,
                   liveClones, insertedOn, calls>>

\* The leader's context is cancelled: exec.CommandContext kills git fetch;
\* Do returns the error to all.
SyncKilled(c) ==
    LET r == call[c].key IN
    /\ Quiet
    /\ call[c].pc = "syncing"
    /\ call[c].cancelled
    /\ call' = AfterSyncFlight(c, r, "err")
    /\ UNCHANGED beyondMirror
    /\ UNCHANGED <<dir, sentinel, lastSync, authCache, now, upstream,
                   liveClones, insertedOn, calls>>

\* (a stale branch that stores lastSync whatever the fetch returned)
AfterSyncStoresAlways(c) ==
    LET r == call[c].key IN
    /\ Quiet
    /\ call[c].pc = "afterSync"
    /\ lastSync' = [lastSync EXCEPT ![r] = now]
    /\ call' = [call EXCEPT ![c] = [@ EXCEPT !.pc = "done",
                    !.ret = OkRet(r, StaleBranchStatus(call[c].syncErr))]]
    /\ UNCHANGED beyondMirror
    /\ UNCHANGED <<dir, sentinel, authCache, now, upstream, liveClones,
                   insertedOn, calls>>

\* After Do("sync:..."): on success the caller stores lastSync; on failure it
\* logs "sync failed, serving stale". Both ways the stale branch then ends
\* with its return statement.
AfterSync(c) ==
    LET r == call[c].key IN
    /\ Quiet
    /\ call[c].pc = "afterSync"
    /\ lastSync' = IF call[c].syncErr = "nil"
                   THEN [lastSync EXCEPT ![r] = now]
                   ELSE lastSync
    /\ call' = [call EXCEPT ![c] = [@ EXCEPT !.pc = "done",
                    !.ret = OkRet(r, StaleBranchStatus(call[c].syncErr))]]
    /\ UNCHANGED beyondMirror
    /\ UNCHANGED <<dir, sentinel, authCache, now, upstream, liveClones,
                   insertedOn, calls>>

\* EnsureRepo has returned: the goroutine is free for the next request.
Return(c) ==
    /\ call[c].pc = "done"
    /\ call' = [call EXCEPT ![c] = IdleCall]
    /\ UNCHANGED beyondMirror
    /\ UNCHANGED <<dir, sentinel, lastSync, authCache, now, upstream,
                   liveClones, insertedOn, calls>>

----------------------------------------------------------------------------
(* validateAuth and the auth cache *)

\* Mirror.getAuthCache: the set in the file, or an error when it is missing
CacheReadable == authCache.present

\* Mirror.checkAuthCache
CacheHas(h) == authCache.present /\ Sha1(h) \in authCache.digests

\* validateAuth accepts a probe answer without consulting the cache: the
\* branch that calls addAuthCache.
ProbeAccepts(answer) == answer # NetErr /\ answer # StatusUnauthorized

\* (a validateAuth that lets a cached digest pass on 401)
UnauthorizedVerdictByCache(h) == IF CacheHas(h) THEN NoErr ELSE ErrAuth

\* validateAuth on the answer 401: the error it returns, whatever the cache
\* holds.
UnauthorizedVerdict(h) == ErrAuth

\* validateAuth probes the upstream with http.Get (no credentials):
\*  - network error: checkAuthCache decides;
\*  - 401: removeAuthCache reads the file (and will write it back without
\*    the digest), the validation fails;
\*  - any other answer: addAuthCache reads the file (a new set when that
\*    fails) and will write it back with the digest.
AuthProbe(c) ==
    LET r == call[c].key
        h == call[c].hdr
        seen == [call[c] EXCEPT !.up = upstream, !.probed = TRUE,
                                 !.cached = CacheHas(h), !.cancelled = FALSE]
    IN
    /\ Quiet
    /\ call[c].pc = "authProbe"
    /\ call' = [call EXCEPT ![c] =
          IF upstream = NetErr
          THEN [seen EXCEPT !.pc = "done",
                   !.ret = IF CacheHas(h) THEN OkRet(r, StatusHit)
                                          ELSE ErrRet(ErrAuth)]
          ELSE IF ~ProbeAccepts(upstream)
          THEN IF CacheReadable
               THEN [seen EXCEPT !.pc = "authStore",
                                 !.loc = authCache.digests \ {Sha1(h)}]
               ELSE [seen EXCEPT !.pc = "done",
                                 !.ret = ErrRet(UnauthorizedVerdict(h))]
          ELSE [seen EXCEPT !.pc = "authStore",
                   !.loc = (IF CacheReadable THEN authCache.digests ELSE {})
                           \cup {Sha1(h)}]]
    /\ UNCHANGED beyondMirror
    /\ UNCHANGED <<dir, sentinel, lastSync, authCache, now, upstream,
                   liveClones, insertedOn, calls>>

\* Mirror.storeAuthCache: the file is overwritten with the caller's set;
\* validateAuth then returns (an error after 401, nil after addAuthCache).
AuthStore(c) ==
    LET r == call[c].key
        h == call[c].hdr
    IN
    /\ Quiet
    /\ call[c].pc = "authStore"
    /\ authCache' = [present |-> TRUE, digests |-> call[c].loc]
    /\ insertedOn' = IF ProbeAccepts(call[c].up)
                     THEN insertedOn \cup {<<Sha1(h), call[c].up>>}
                     ELSE insertedOn
    /\ call' = [call EXCEPT ![c] = [@ EXCEPT !.pc = "done", !.loc = {},
                    !.ret = IF ProbeAccepts(call[c].up)
                            THEN OkRet(r, StatusHit)
                            ELSE ErrRet(UnauthorizedVerdict(h))]]
    /\ UNCHANGED beyondMirror
    /\ UNCHANGED <<dir, sentinel, lastSync, now, upstream, liveClones, calls>>

----------------------------------------------------------------------------
(* The environment *)

\* time passes
Tick ==
    /\ Idle
    /\ now < MaxTime
    /\ now' = now + 1
    /\ UNCHANGED beyondMirror
    /\ UNCHANGED <<call, dir, sentinel, lastSync, authCache, upstream,
                   liveClones, insertedOn, calls>>

\* the upstream starts to answer differently (made private or public,
\* removed, broken, unreachable, back again)
UpstreamChange(a) ==
    /\ Idle
    /\ a # upstream
    /\ upstream' = a
    /\ UNCHANGED beyondMirror
    /\ UNCHANGED <<call, dir, sentinel, lastSync, authCache, now, liveClones,
                   insertedOn, calls>>

----------------------------------------------------------------------------
(* The HTTP server in front of the mirror manager (package gitproxy).      *)
(* Two revisions of it are in the repository: the one that hands every     *)
(* request to `git http-backend` through net/http/cgi, and the one that    *)
(* serves through package gitserve and keeps a cache of packs.             *)

RevBackend  == "http-backend"
RevGitserve == "gitserve"
Revisions   == {RevBackend, RevGitserve}

KindInfo        == "info"
KindUploadPack  == "upload-pack"
KindReceivePack == "receive-pack"
KindUnknown     == "unknwon"
KindPack        == "pack"
NoKind          == ""

StatusBadRequest == 400
StatusBadGateway == 502
StatusForbidden  == 403
StatusOK         == 200

\* cfg.AllowedUpstreams (default "github.com")
AllowedUpstreams == {"github.com"}

\* cfg.AuthMode
AuthModes == {"none", "pass-through", "static"}

\* "Bearer " + cfg.StaticToken
StaticAuth == GoodAuth

\* URL paths of the requests, as their segments
Paths ==
    { <<"github.com", "acme", "app.git", "info", "refs">>,
      <<"github.com", "acme", "app", "info", "refs">>,
      <<"github.com", "acme", "a", "app", "info", "refs">>,
      <<"github.com", "acme", "b", "app.git", "info", "refs">>,
      <<"github.com", "acme", "app", "git-upload-pack">>,
      <<"github.com", "acme", "app.git", "git-receive-pack">>,
      <<"github.com", "acme", "app", "HEAD">>,
      <<"gitlab.example", "acme", "app", "info", "refs">>,
      <<"github.com", "info", "refs">>,
      <<>> }

UploadPackPaths == { p \in Paths : p # <<>> /\ p[Len(p)] = "git-upload-pack" }
InfoRefsPaths   == { p \in Paths : Len(p) >= 2 /\ p[Len(p)] = "refs" }

\* A request: its path, the service parameter of its query, its
\* Authorization header, and whether its body is a shallow request (one
\* want, deepen 1, no have).
Requests ==
    [path : Paths, service : {"git-upload-pack"}, hdr : Headers,
     shallow : {FALSE}]
    \cup [path : InfoRefsPaths, service : {"git-receive-pack"},
          hdr : {NoAuth}, shallow : {FALSE}]
    \cup [path : UploadPackPaths, service : {"git-upload-pack"},
          hdr : Headers, shallow : {TRUE}]

\* strings.HasSuffix on a path, segment by segment
HasSuffix(p, suffix) ==
    /\ Len(p) >= Len(suffix)
    /\ SubSeq(p, Len(p) - Len(suffix) + 1, Len(p)) = suffix

\* removing "/" + suffix from the end of the path (a segment must precede)
TrimSuffixSegs(p, suffix) ==
    IF Len(p) > Len(suffix) /\ HasSuffix(p, suffix)
    THEN SubSeq(p, 1, Len(p) - Len(suffix))
    ELSE p

\* (a resolveTarget that keeps the .git suffix)
TrimGitNever(p) == p

\* strings.TrimSuffix(repoPath, ".git") on the last segment
TrimGit(p) ==
    IF p # <<>> /\ p[Len(p)] = "app.git"
    THEN [p EXCEPT ![Len(p)] = "app"]
    ELSE p

NoTarget == [err |-> TRUE, host |-> "", owner |-> "", repo |-> "",
             kind |-> NoKind]

\* the end of resolveTarget: split into host/owner/repo (the repo is the
\* base of what follows the owner), then the allow-list
SplitTarget(p, kind) ==
    IF Len(p) < 3 THEN NoTarget
    ELSE IF p[1] \notin AllowedUpstreams THEN NoTarget
    ELSE [err |-> FALSE, host |-> p[1], owner |-> p[2], repo |-> p[Len(p)],
          kind |-> kind]

\* Server.resolveTarget of the http-backend revision
ResolveTargetBackend(p) ==
    LET kind == IF HasSuffix(p, <<"info", "refs">>) THEN KindInfo
                ELSE IF HasSuffix(p, <<"git-upload-pack">>) THEN KindUploadPack
                ELSE IF HasSuffix(p, <<"git-receive-pack">>) THEN KindReceivePack
                ELSE KindUnknown
        stripped ==
            TrimSuffixSegs(TrimSuffixSegs(TrimSuffixSegs(TrimSuffixSegs(p,
                <<"info", "refs">>), <<"git-upload-pack">>),
                <<"git-receive-pack">>), <<"HEAD">>)
    IN  IF p = <<>> THEN NoTarget ELSE SplitTarget(TrimGit(stripped), kind)

\* Server.resolveTarget of the gitserve revision
ResolveTargetGitserve(p) ==
    LET kind == IF HasSuffix(p, <<"info", "refs">>) THEN KindInfo
                ELSE IF HasSuffix(p, <<"git-upload-pack">>) THEN KindPack
                ELSE NoKind
        stripped == TrimSuffixSegs(TrimSuffixSegs(p, <<"info", "refs">>),
                                   <<"git-upload-pack">>)
    IN  IF p = <<>> \/ kind = NoKind THEN NoTarget
        ELSE SplitTarget(TrimGit(stripped), kind)

ResolveTarget(p) ==
    IF cfg.rev = RevBackend THEN ResolveTargetBackend(p)
    ELSE ResolveTargetGitserve(p)

\* the (host, owner, repo) of a resolved target
TargetRepo(t) == <<t.host, t.owner, t.repo>>

\* the authHeader the handler passes to EnsureRepo
UpstreamAuth(q) ==
    CASE cfg.authMode = "static"       -> StaticAuth
      [] cfg.authMode = "pass-through" -> q.hdr
      [] OTHER                         -> NoAuth

\* EnsureRepo run from its call to its return with no other call in between
\* (clone, or fetch on a stale mirror, or validateAuth on a fresh mirror that
\* requires auth): what it returns and how it leaves the mirror. `gitOk`:
\* the Git subprocess, if one runs, does not fail for a reason of its own.
EnsureRepoAlone(r, h, gitOk) ==
    LET same == [ret |-> NoRet, dir |-> dir, sentinel |-> sentinel,
                 lastSync |-> lastSync, authCache |-> authCache]
        reads == gitOk /\ UpstreamGrants(h)
    IN
    IF RepoMissing(r)
    THEN IF reads
         THEN [same EXCEPT
                 !.ret = OkRet(r, StatusClone),
                 !.dir = [dir EXCEPT ![r] = "complete"],
                 !.sentinel = [sentinel EXCEPT ![r] =
                                  IF h # NoAuth THEN TRUE ELSE @],
                 !.lastSync = [lastSync EXCEPT ![r] = now]]
         ELSE [same EXCEPT !.ret = ErrRet(ErrClone)]
    ELSE IF IsStale(r)
    THEN [same EXCEPT
            !.ret = OkRet(r, StaleBranchStatus(IF reads THEN "nil" ELSE "err")),
            !.lastSync = IF reads THEN [lastSync EXCEPT ![r] = now]
                                  ELSE lastSync]
    ELSE IF RequiresAuth(r)
    THEN IF upstream = NetErr
         THEN [same EXCEPT !.ret = IF CacheHas(h) THEN OkRet(r, StatusHit)
                                                  ELSE ErrRet(ErrAuth)]
         ELSE IF ~ProbeAccepts(upstream)
         THEN [same EXCEPT
                 !.ret = ErrRet(UnauthorizedVerdict(h)),
                 !.authCache =
                     IF CacheReadable
                     THEN [present |-> TRUE,
                           digests |-> authCache.digests \ {Sha1(h)}]
                     ELSE authCache]
         ELSE [same EXCEPT
                 !.ret = OkRet(r, StatusHit),
                 !.authCache =
                     [present |-> TRUE,
                      digests |-> (IF CacheReadable THEN authCache.digests
                                                    ELSE {}) \cup {Sha1(h)}]]
    ELSE [same EXCEPT !.ret = OkRet(r, StatusHit)]

\* A response: the request it answers, the HTTP status, the value of the
\* X-Git-Proxy-Status header ("" when the header is not set), what the body
\* carries, and whether EnsureRepo ran for this request.
Response(q, code, status, body, ensured) ==
    [req |-> q, code |-> code, status |-> status, body |-> body,
     ensured |-> ensured]

\* (a Handler that lets write requests through to the mirror)
RefusedUnlessWrite(q) == ResolveTarget(q.path).err

\* the requests Handler answers with 400 before anything else happens
Refused(q) ==
    LET t == ResolveTarget(q.path) IN
    \/ t.err
    \/ cfg.rev = RevBackend /\ t.kind = KindReceivePack
    \/ cfg.rev = RevGitserve /\ t.kind = KindInfo
                             /\ q.service # "git-upload-pack"

\* Handler: resolveTarget failed, or the request is a write, or (gitserve)
\* handleInfoRefs is asked for another service: http.Error 400.
BadRequest(q) ==
    /\ Idle
    /\ Refused(q)
    /\ resp' = Response(q, StatusBadRequest, "", "none", FALSE)
    /\ UNCHANGED beyondServer
    /\ UNCHANGED <<mirrorVars, cfg, statusCache, packCache>>

\* what git http-backend answers on an ensured mirror (no proxy header)
BackendAnswer(q, t) ==
    IF t.kind = KindInfo /\ q.service # "git-upload-pack"
    THEN Response(q, StatusForbidden, "", "none", TRUE)
    ELSE Response(q, StatusOK, "",
                  CASE t.kind = KindInfo       -> "refs"
                    [] t.kind = KindUploadPack -> "pack"
                    [] OTHER                   -> "file",
                  TRUE)

\* Server.handle (http-backend revision): EnsureRepo, then on success the
\* status is stored and git http-backend serves the request from the mirror.
Handle(q) ==
    LET t == ResolveTarget(q.path)
        r == TargetRepo(t)
    IN
    /\ Idle
    /\ cfg.rev = RevBackend
    /\ ~Refused(q)
    /\ \E gitOk \in BOOLEAN :
        LET e == EnsureRepoAlone(r, UpstreamAuth(q), gitOk) IN
        /\ dir' = e.dir
        /\ sentinel' = e.sentinel
        /\ lastSync' = e.lastSync
        /\ authCache' = e.authCache
        /\ IF e.ret.err # NoErr
           THEN /\ resp' = Response(q, StatusBadGateway, "", "none", TRUE)
                /\ UNCHANGED statusCache
           ELSE /\ statusCache' = [statusCache EXCEPT ![r] = e.ret.status]
                /\ resp' = BackendAnswer(q, t)
    /\ UNCHANGED beyondServer
    /\ UNCHANGED <<call, now, upstream, liveClones, insertedOn, calls,
                   cfg, packCache>>

\* Server.handleInfoRefs (gitserve revision): EnsureRepo, then on success
\* the status is stored and gitserve.ServeInfoRefs advertises the refs with
\* the status in X-Git-Proxy-Status.
HandleInfoRefs(q) ==
    LET t == ResolveTarget(q.path)
        r == TargetRepo(t)
    IN
    /\ Idle
    /\ cfg.rev = RevGitserve
    /\ ~Refused(q)
    /\ t.kind = KindInfo
    /\ \E gitOk \in BOOLEAN :
        LET e == EnsureRepoAlone(r, UpstreamAuth(q), gitOk) IN
        /\ dir' = e.dir
        /\ sentinel' = e.sentinel
        /\ lastSync' = e.lastSync
        /\ authCache' = e.authCache
        /\ IF e.ret.err # NoErr
           THEN /\ resp' = Response(q, StatusBadGateway, "", "none", TRUE)
                /\ UNCHANGED statusCache
           ELSE /\ statusCache' = [statusCache EXCEPT ![r] = e.ret.status]
                /\ resp' = Response(q, StatusOK, e.ret.status, "refs", TRUE)
    /\ UNCHANGED beyondServer
    /\ UNCHANGED <<call, now, upstream, liveClones, insertedOn, calls,
                   cfg, packCache>>

\* git upload-pack on the mirror path produces a pack
PackServable(r) == dir[r] = "complete"

\* Server.tryServeCachedPack answers the request: the pack cache is on, the
\* body is a shallow request, and the pack file is cached or can be built.
CachedPackServes(q, r) ==
    /\ cfg.enablePackCache
    /\ q.shallow
    /\ r \in packCache \/ PackServable(r)

\* (a POST that reports a hit whatever the map holds)
CacheStatusAlwaysHit(r) == StatusHit

\* the cacheStatus of handleUploadPack: s.statusCache.Load(repoKey), "" when
\* the map has no entry for the key; the entry stays in the map
CacheStatus(r) == statusCache[r]

\* Server.handleUploadPack (gitserve revision): the mirror path is computed,
\* the status stored by the last info/refs is looked up, then the cached
\* pack is served (servePackFile) or gitserve.ServeUploadPack runs.
HandleUploadPack(q) ==
    LET t == ResolveTarget(q.path)
        r == TargetRepo(t)
        cacheStatus == CacheStatus(r)
    IN
    /\ Idle
    /\ cfg.rev = RevGitserve
    /\ ~Refused(q)
    /\ t.kind = KindPack
    /\ IF CachedPackServes(q, r)
       THEN /\ packCache' = packCache \cup {r}
            /\ resp' = Response(q, StatusOK, "", "pack", FALSE)
       ELSE /\ UNCHANGED packCache
            /\ resp' = Response(q, StatusOK, cacheStatus,
                                IF PackServable(r) THEN "pack" ELSE "none",
                                FALSE)
    /\ UNCHANGED beyondServer
    /\ UNCHANGED <<mirrorVars, cfg, statusCache>>

\* The response is written and the handler returns.
Deliver ==
    /\ resp # NoResp
    /\ resp' = NoResp
    /\ UNCHANGED beyondServer
    /\ UNCHANGED <<mirrorVars, cfg, statusCache, packCache>>

\* The configurations of a serving process; maintenanceRepo tells whether
\* maintenance-repo is set, which makes the process a one-shot maintenance.
Configs ==
    { c \in [rev : Revisions, authMode : AuthModes,
             enablePackCache : BOOLEAN, maintainAfterSync : BOOLEAN,
             maintenanceRepo : {FALSE}, serializeUploadPack : {FALSE},
             cacheSizeBytes : {0}] :
        c.rev = RevBackend => ~c.enablePackCache }

\* the defaults of the flags (auth-mode pass-through, no pack cache)
DefaultCfg ==
    [rev |-> RevBackend, authMode |-> "pass-through",
     enablePackCache |-> FALSE, maintainAfterSync |-> FALSE,
     maintenanceRepo |-> FALSE, serializeUploadPack |-> FALSE,
     cacheSizeBytes |-> 0]

ServerInit ==
    /\ statusCache = [r \in MirrorKeys |-> ""]
    /\ packCache = {}
    /\ resp = NoResp

HandlerInit ==
    /\ MirrorInitOn(MirrorKeys)
    /\ cfg \in { c \in Configs : ~c.maintainAfterSync }
    /\ ServerInit
    /\ MaintInit
    /\ LruInit
    /\ PostInit
    /\ CacheInit

HandlerNext ==
    \/ \E q \in Requests : BadRequest(q)
    \/ \E q \in Requests : Handle(q)
    \/ \E q \in Requests : HandleInfoRefs(q)
    \/ \E q \in Requests : HandleUploadPack(q)
    \/ Deliver
    \/ Tick
    \/ \E a \in ProbeAnswers : UpstreamChange(a)

HandlerSpec == HandlerInit /\ [][HandlerNext]_vars

----------------------------------------------------------------------------
(* Maintenance: scheduleOptimize (background, behind the maintGroup        *)
(* singleflight), MaintainRepo / MaintainAll (one-shot mode), optimizeRepo, *)
(* and the Git subprocesses with their environment.                        *)

\* os.Environ() of the proxy process, as (name, value) pairs
OsEnviron == { <<"PATH", "/usr/bin:/bin">>, <<"HOME", "/var/lib/gitproxy">> }

\* gitEnv(authHeader); the value of GIT_CONFIG_VALUE_0 is
\* "Authorization: " followed by the header
GitEnv(h) ==
    OsEnviron
    \cup { <<"GIT_TERMINAL_PROMPT", "0">>,
           <<"GIT_CONFIG_GLOBAL", "/dev/null">>,
           <<"GIT_CONFIG_SYSTEM", "/dev/null">> }
    \cup (IF h # NoAuth
          THEN { <<"GIT_CONFIG_COUNT", "1">>,
                 <<"GIT_CONFIG_KEY_0", "http.extraheader">>,
                 <<"GIT_CONFIG_VALUE_0", h>> }
          ELSE {})

\* exec.Command whose Env is left nil: the child inherits the environment
InheritedEnv == OsEnviron

Proc(cmd, env) == [cmd |-> cmd, env |-> env]

\* the Git subprocess EnsureRepo starts for this call, if any
GitLaunched(r, h) ==
    IF RepoMissing(r) THEN {Proc("clone", GitEnv(h))}
    ELSE IF IsStale(r) THEN {Proc("fetch", GitEnv(h))}
    ELSE {}

\* the goroutine is inside optimizeRepo
InOptimize(g) == opt[g].pc \in {"lockCheck", "repack", "graph", "midx"}

\* maintGroup: a Do(repoPath) is in flight
MaintInFlight == \E g \in Runners : opt[g].via = "schedule" /\ InOptimize(g)

\* (a scheduleOptimize that always asks for a light run)
ScheduledLight(full) ==
    [IdleRun EXCEPT !.pc = IF MaintInFlight THEN "wait" ELSE "lockCheck",
                    !.via = "schedule"]

\* scheduleOptimize: the new goroutine calls maintGroup.Do(repoPath): it
\* waits for the flight in progress, or runs optimizeRepo itself
Scheduled(full) ==
    IF MaintInFlight
    THEN [IdleRun EXCEPT !.pc = "wait", !.full = full, !.via = "schedule"]
    ELSE [IdleRun EXCEPT !.pc = "lockCheck", !.full = full,
                         !.via = "schedule"]

\* the lowest idle goroutine
FreeRunner(g) ==
    /\ opt[g].pc = "idle"
    /\ \A f \in Runners : f < g => opt[f].pc # "idle"

\* EnsureRepo for a request (no other call in between), with the Git
\* subprocess it starts and the optimisation it schedules: a full one after
\* a clone, a light one after a successful fetch when maintainAfterSync.
EnsureRequest(g, r, h, gitOk) ==
    LET e == EnsureRepoAlone(r, h, gitOk)
        cloned == RepoMissing(r) /\ e.ret.err = NoErr
        synced == ~RepoMissing(r) /\ IsStale(r) /\ e.lastSync # lastSync
    IN
    /\ Idle
    /\ FreeRunner(g)
    /\ dir' = e.dir
    /\ sentinel' = e.sentinel
    /\ lastSync' = e.lastSync
    /\ authCache' = e.authCache
    /\ procs' = procs \cup GitLaunched(r, h)
    /\ opt' = IF cloned THEN [opt EXCEPT ![g] = Scheduled(TRUE)]
              ELSE IF synced /\ cfg.maintainAfterSync
              THEN [opt EXCEPT ![g] = Scheduled(FALSE)]
              ELSE opt
    /\ UNCHANGED beyondMaint
    /\ UNCHANGED <<call, now, upstream, liveClones, insertedOn, calls,
                   serverVars>>

\* MaintainRepo / MaintainAll of the one-shot mode: when the mirror
\* directory exists, optimizeRepo is called directly; MaintainRepo on a
\* missing directory returns an error and main exits with 1. (The exit of
\* the one-shot process is followed when cfg is that process's
\* configuration; otherwise the run is the one of a one-shot process next
\* to the server, on the same mirror root.)
Maintain(g, r, full) ==
    /\ FreeRunner(g)
    /\ dir[r] # "absent" \/ cfg.maintenanceRepo
    /\ opt' = [opt EXCEPT ![g] =
                  IF dir[r] # "absent"
                  THEN [IdleRun EXCEPT !.pc = "lockCheck", !.full = full,
                                       !.via = "maintain"]
                  ELSE [IdleRun EXCEPT !.pc = "exit", !.full = full,
                                       !.via = "maintain", !.failed = TRUE,
                                       !.code = 1]]
    /\ UNCHANGED beyondMaint
    /\ UNCHANGED <<mirrorVars, serverVars, procs>>

\* (an optimizeRepo that does not probe for the lock file)
CommitGraphLockIgnored == FALSE

\* objects/info/commit-graph.lock exists: a git commit-graph write is running
CommitGraphLocked == \E g \in Runners : opt[g].pc = "graph"

\* the run of g is over; the goroutines that waited in Do return with it.
\* optimizeRepo returns nothing: after a one-shot run MaintainRepo and
\* MaintainAll return nil and main returns (exit code 0).
Finished(o, g) ==
    [f \in Runners |->
        IF f = g /\ o[g].via = "maintain" /\ cfg.maintenanceRepo
        THEN [o[g] EXCEPT !.pc = "exit", !.code = 0]
        ELSE IF f = g \/ (o[g].via = "schedule" /\ o[f].pc = "wait")
        THEN IdleRun ELSE o[f]]

\* optimizeRepo: the lock check, then the first subprocess (git repack for
\* a full run, else git commit-graph write)
OptimizeStart(g) ==
    /\ opt[g].pc = "lockCheck"
    /\ IF CommitGraphLocked
       THEN opt' = Finished(opt, g) /\ UNCHANGED procs
       ELSE IF opt[g].full
       THEN /\ opt' = [opt EXCEPT ![g].pc = "repack"]
            /\ procs' = procs \cup {Proc("repack", InheritedEnv)}
       ELSE /\ opt' = [opt EXCEPT ![g].pc = "graph"]
            /\ procs' = procs \cup {Proc("commit-graph", InheritedEnv)}
    /\ UNCHANGED beyondMaint
    /\ UNCHANGED <<mirrorVars, serverVars>>

\* a Git subprocess of the run has exited with ok: what the run keeps of it
\* for the process's exit code (a scheduled run has no exit code to give)
StepFailed(g, ok) == opt[g].failed \/ (opt[g].via = "maintain" /\ ~ok)

\* git repack has exited (0 or not, which is only logged): git
\* commit-graph write starts
RepackDone(g, ok) ==
    /\ opt[g].pc = "repack"
    /\ opt' = [opt EXCEPT ![g].pc = "graph", ![g].failed = StepFailed(g, ok)]
    /\ procs' = procs \cup {Proc("commit-graph", InheritedEnv)}
    /\ UNCHANGED beyondMaint
    /\ UNCHANGED <<mirrorVars, serverVars>>

\* git commit-graph write has exited: git multi-pack-index write starts
GraphDone(g, ok) ==
    /\ opt[g].pc = "graph"
    /\ opt' = [opt EXCEPT ![g].pc = "midx", ![g].failed = StepFailed(g, ok)]
    /\ procs' = procs \cup {Proc("multi-pack-index", InheritedEnv)}
    /\ UNCHANGED beyondMaint
    /\ UNCHANGED <<mirrorVars, serverVars>>

\* git multi-pack-index write has exited: optimizeRepo returns
MidxDone(g, ok) ==
    /\ opt[g].pc = "midx"
    /\ opt' = Finished([opt EXCEPT ![g].failed = StepFailed(g, ok)], g)
    /\ UNCHANGED beyondMaint
    /\ UNCHANGED <<mirrorVars, serverVars, procs>>

\* the one-shot process has exited
ProcessExit(g) ==
    /\ opt[g].pc = "exit"
    /\ opt' = [opt EXCEPT ![g] = IdleRun]
    /\ UNCHANGED beyondMaint
    /\ UNCHANGED <<mirrorVars, serverVars, procs>>

MaintSpecInit ==
    /\ MirrorInit
    /\ cfg \in { c \in Configs :
                   c.rev = RevBackend /\ c.authMode = "pass-through" }
    /\ ServerInit
    /\ MaintInit
    /\ LruInit
    /\ PostInit
    /\ CacheInit

MaintNext ==
    \/ \E g \in Runners, r \in Repos, h \in Headers, gitOk \in BOOLEAN :
          EnsureRequest(g, r, h, gitOk)
    \/ \E g \in Runners, r \in Repos, full \in BOOLEAN : Maintain(g, r, full)
    \/ \E g \in Runners : OptimizeStart(g)
    \/ \E g \in Runners : RepackDone(g, TRUE)
    \/ \E g \in Runners : GraphDone(g, TRUE)
    \/ \E g \in Runners : MidxDone(g, TRUE)
    \/ Tick

MaintSpec == MaintSpecInit /\ [][MaintNext]_vars

\* The one-shot maintenance process and its exit code, within one instant
\* of the clock, with Git subprocesses of the optimisation that fail; the
\* requests are those of a server on the same mirror root.
OneShotInit ==
    /\ MirrorInit
    /\ cfg = [DefaultCfg EXCEPT !.maintenanceRepo = TRUE]
    /\ ServerInit
    /\ MaintInit
    /\ LruInit
    /\ PostInit
    /\ CacheInit

OneShotNext ==
    \/ \E g \in Runners, r \in Repos, h \in Headers, gitOk \in BOOLEAN :
          EnsureRequest(g, r, h, gitOk)
    \/ \E g \in Runners, r \in Repos, full \in BOOLEAN : Maintain(g, r, full)
    \/ \E g \in Runners : OptimizeStart(g)
    \/ \E g \in Runners, ok \in BOOLEAN : RepackDone(g, ok)
    \/ \E g \in Runners, ok \in BOOLEAN : GraphDone(g, ok)
    \/ \E g \in Runners, ok \in BOOLEAN : MidxDone(g, ok)
    \/ \E g \in Runners : ProcessExit(g)

OneShotSpec == OneShotInit /\ [][OneShotNext]_vars

----------------------------------------------------------------------------
(* The mirror manager under concurrent calls *)

Init ==
    /\ MirrorInit
    /\ cfg = DefaultCfg
    /\ ServerInit
    /\ MaintInit
    /\ LruInit
    /\ PostInit
    /\ CacheInit

Next ==
    \/ \E c \in Callers, r \in Repos, h \in Headers : Start(c, r, h)
    \/ \E c \in Callers, marked \in BOOLEAN : CloneSucceed(c, marked)
    \/ \E c \in Callers : CloneFail(c)
    \/ \E c \in Callers : Cancel(c)
    \/ \E c \in Callers : CloneKilled(c)
    \/ \E c \in Callers : SyncKilled(c)
    \/ \E c \in Callers : SyncDo(c)
    \/ \E c \in Callers : SyncSucceed(c)
    \/ \E c \in Callers : SyncFail(c)
    \/ \E c \in Callers : AfterSync(c)
    \/ \E c \in Callers : AuthProbe(c)
    \/ \E c \in Callers : AuthStore(c)
    \/ \E c \in Callers : Return(c)
    \/ Tick
    \/ \E a \in ProbeAnswers : UpstreamChange(a)

Spec == Init /\ [][Next]_vars

----------------------------------------------------------------------------
(* The mirror manager with two keys and the evictor at work, within one   *)
(* instant of the clock: a mirror is stale when lastSync has no entry.     *)

\* The evictor removes the bare directory of a mirror (the sentinel file in
\* it included); it skips a key with a clone or sync flight in progress.
\* lastSync lives in the Mirror and keeps its entry.
Evict(r) ==
    /\ Quiet
    /\ dir[r] # "absent"
    /\ ~CloneInFlight(r) /\ ~SyncInFlight(r)
    /\ dir' = [dir EXCEPT ![r] = "absent"]
    /\ sentinel' = [sentinel EXCEPT ![r] = FALSE]
    /\ liveClones' = [liveClones EXCEPT ![r] = 0]
    /\ UNCHANGED beyondMirror
    /\ UNCHANGED <<call, lastSync, authCache, now, upstream, insertedOn, calls>>

KeysInit ==
    /\ MirrorInitOn(MoreRepos)
    /\ cfg = DefaultCfg
    /\ ServerInit
    /\ MaintInit
    /\ LruInit
    /\ PostInit
    /\ CacheInit

KeysNext ==
    \/ \E c \in Callers, r \in MoreRepos, h \in Headers : Start(c, r, h)
    \/ \E c \in Callers : Cancel(c)
    \/ \E c \in Callers, marked \in BOOLEAN : CloneSucceed(c, marked)
    \/ \E c \in Callers : CloneFail(c)
    \/ \E c \in Callers : CloneKilled(c)
    \/ \E c \in Callers : SyncDo(c)
    \/ \E c \in Callers : SyncSucceed(c)
    \/ \E c \in Callers : SyncFail(c)
    \/ \E c \in Callers : SyncKilled(c)
    \/ \E c \in Callers : AfterSync(c)
    \/ \E c \in Callers : AuthProbe(c)
    \/ \E c \in Callers : AuthStore(c)
    \/ \E c \in Callers : Return(c)
    \/ \E r \in MoreRepos : Evict(r)

KeysSpec == KeysInit /\ [][KeysNext]_vars

----------------------------------------------------------------------------
(* The LRU store of the mirrors and its evictor *)

\* the mirror size budget (mirror-max-size) and the size of each bare
\* repository on disk, in the same unit
Budget == 3

Size(k) ==
    IF k = "github.com/acme/app" THEN 1 ELSE 2

RECURSIVE SumSizes(_)
SumSizes(S) ==
    IF S = {} THEN 0
    ELSE LET k == CHOOSE x \in S : TRUE IN Size(k) + SumSizes(S \ {k})

\* the walk of the mirror root: the summed size of the bare repositories
Total(st) == SumSizes({ k \in Keys : st[k].dir = "present" })

\* a mirror the evictor may remove: any directory on disk
EvictableAny(st) == { k \in Keys : st[k].dir = "present" }

\* a mirror the evictor may remove: on disk, its key without an in-flight
\* clone or sync slot
Evictable(st) ==
    { k \in Keys : st[k].dir = "present" /\ st[k].slot = "none" }

\* the most recently used removable mirror
Newest(st) ==
    CHOOSE k \in Evictable(st) :
        \A j \in Evictable(st) : st[k].lastAccess >= st[j].lastAccess

\* the removable mirror whose lastAccess is oldest
Oldest(st) ==
    CHOOSE k \in Evictable(st) :
        \A j \in Evictable(st) : st[k].lastAccess <= st[j].lastAccess

\* one run of the evictor: while the total exceeds the budget, remove the
\* oldest removable mirror; stop when nothing is removable
RECURSIVE EvictRun(_)
EvictRun(st) ==
    IF Total(st) <= Budget \/ Evictable(st) = {}
    THEN st
    ELSE EvictRun([st EXCEPT ![Oldest(st)].dir = "evicted"])

\* EnsureRepo on a missing mirror: the clone flight of the key starts and
\* git creates the directory
CloneBegin(k) ==
    /\ lru[k].dir # "present"
    /\ lru[k].slot = "none"
    /\ lru' = [lru EXCEPT ![k].dir = "present", ![k].slot = "clone",
                          ![k].lastAccess = 0]
    /\ UNCHANGED <<evictPending, mirrorVars, serverVars, maintVars, packVars, cacheVars>>

\* the clone flight ends: on success the key is touched and an evictor run
\* is started, on failure the partial directory is removed
CloneEnd(k, ok) ==
    /\ lru[k].slot = "clone"
    /\ IF ok
       THEN /\ lru' = [lru EXCEPT ![k].slot = "none", ![k].lastAccess = now]
            /\ evictPending' = TRUE
       ELSE /\ lru' = [lru EXCEPT ![k].slot = "none", ![k].dir = "absent"]
            /\ UNCHANGED evictPending
    /\ UNCHANGED <<mirrorVars, serverVars, maintVars, packVars, cacheVars>>

\* EnsureRepo on a present mirror: the key is touched, and a stale mirror
\* takes the sync slot of its key
Access(k, stale) ==
    /\ lru[k].dir = "present"
    /\ lru[k].slot = "none"
    /\ lru' = [lru EXCEPT ![k].lastAccess = now,
                          ![k].slot = IF stale THEN "sync" ELSE "none"]
    /\ UNCHANGED <<evictPending, mirrorVars, serverVars, maintVars, packVars, cacheVars>>

\* the sync flight ends
SyncEnd(k) ==
    /\ lru[k].slot = "sync"
    /\ lru' = [lru EXCEPT ![k].slot = "none"]
    /\ UNCHANGED <<evictPending, mirrorVars, serverVars, maintVars, packVars, cacheVars>>

\* a run of the evictor; a run that leaves the total above the budget is
\* retried after the back-off
MaybeEvict ==
    /\ evictPending
    /\ lru' = EvictRun(lru)
    /\ evictPending' = (Total(lru') > Budget)
    /\ UNCHANGED <<mirrorVars, serverVars, maintVars, packVars, cacheVars>>

EvictNext ==
    \/ \E k \in Keys : CloneBegin(k)
    \/ \E k \in Keys, ok \in BOOLEAN : CloneEnd(k, ok)
    \/ \E k \in Keys, stale \in BOOLEAN : Access(k, stale)
    \/ \E k \in Keys : SyncEnd(k)
    \/ MaybeEvict
    \/ Tick

EvictSpec == Init /\ [][EvictNext]_vars

----------------------------------------------------------------------------
(* The git-upload-pack POST: repo lock, cached-pack path, upload-pack *)

\* the pack files built in a behaviour
MaxFiles == 2

RECURSIVE Built(_)
Built(K) ==
    IF K = {} THEN 0
    ELSE LET k == CHOOSE x \in K : TRUE IN packFiles[k] + Built(K \ {k})

\* readBodyMaybeGzip: the body, gunzipped when Content-Encoding says gzip
\* (bytes that are not gzip make the gzip reader fail)
ReadBodyMaybeGzip(gzip, body) ==
    IF ~gzip THEN [ok |-> TRUE, bytes |-> body]
    ELSE IF body.gz THEN [ok |-> TRUE, bytes |-> Bytes(FALSE, body.data)]
    ELSE [ok |-> FALSE, bytes |-> body]

\* gitserve.ServeUploadPack on a request whose Content-Encoding header is
\* gzip (or not) and whose body are the given bytes: the body is gunzipped
\* as the header says and piped to git upload-pack --stateless-rpc; a gzip
\* reader error returns before anything is written, bytes git cannot parse
\* make upload-pack answer with an error
ServeUploadPack(gzip, body) ==
    LET in == ReadBodyMaybeGzip(gzip, body) IN
    IF ~in.ok THEN [from |-> "gzip-error", data |-> NoPackReq.payload,
                    file |-> 0]
    ELSE IF in.bytes.gz THEN [from |-> "git-error",
                              data |-> NoPackReq.payload, file |-> 0]
    ELSE [from |-> "upload-pack", data |-> in.bytes.data, file |-> 0]

\* servePackFile: the bytes of a stored pack file
ServePackFile(f) == [from |-> "cache", data |-> NoPackReq.payload, file |-> f]

\* no handler is between writing its response and returning
Settled == \A g \in Callers : post[g].pc # "done"

\* handleUploadPack up to the singleflight of tryServeCachedPack: the repo
\* mutex is taken under serialize-upload-pack (the handler blocks while
\* another one holds it); with the pack cache enabled the body is read and
\* r.Body replaced by the bytes read, the Content-Encoding header left as it
\* was; a request of another shape falls through to upload-pack, a cached
\* entry is served, a miss goes on to packCacheGroup.Do
Post(h, q) ==
    /\ Settled
    /\ post[h].pc = "idle"
    /\ \A g \in Callers : g < h => post[g].pc # "idle"
    /\ cfg.serializeUploadPack => repoLocks[q.repo] = 0
    /\ repoLocks' = IF cfg.serializeUploadPack
                     THEN [repoLocks EXCEPT ![q.repo] = h]
                     ELSE repoLocks
    /\ LET wire == Bytes(q.gzip, q.payload)
           in   == ReadBodyMaybeGzip(q.gzip, wire)
           run  == [IdlePost EXCEPT !.req = q]
       IN  post' = [post EXCEPT ![h] =
             IF ~cfg.enablePackCache
             THEN [run EXCEPT !.pc = "serve", !.body = wire]
             ELSE IF ~Eligible(in.bytes.data)
             THEN [run EXCEPT !.pc = "serve", !.body = in.bytes]
             ELSE IF packFiles[CacheKey(q.repo, in.bytes)] # 0
             THEN [run EXCEPT !.pc = "done", !.body = in.bytes,
                     !.resp = ServePackFile(
                                 packFiles[CacheKey(q.repo, in.bytes)])]
             ELSE [run EXCEPT !.pc = "flight", !.body = in.bytes]]
    /\ UNCHANGED <<packFiles, mirrorVars, serverVars, maintVars, lruVars, cacheVars>>

\* the handlers inside packCacheGroup.Do for the cache key of h
Building(h) ==
    { g \in Callers : /\ post[g].pc = "build"
                      /\ CacheKey(post[g].req.repo, post[g].body)
                           = CacheKey(post[h].req.repo, post[h].body) }

\* packCacheGroup.Do(cacheKey, ...): join the flight of the key, or start
\* one (temp file, git upload-pack into it)
Do(h) ==
    /\ Settled
    /\ post[h].pc = "flight"
    /\ post' = [post EXCEPT ![h].pc =
                  IF Building(h) # {} THEN "wait" ELSE "build"]
    /\ UNCHANGED <<packFiles, repoLocks, mirrorVars, serverVars, maintVars,
                   lruVars, cacheVars>>

\* the flight ends: on success the file is stored under the key (replacing
\* what was stored), the leader and those that joined go on to serve the
\* entry; on an error they all fall back to upload-pack
BuildDone(h, ok) ==
    /\ Settled
    /\ post[h].pc = "build"
    /\ LET key    == CacheKey(post[h].req.repo, post[h].body)
           joined == { g \in Callers :
                         /\ post[g].pc = "wait"
                         /\ CacheKey(post[g].req.repo, post[g].body) = key }
       IN  /\ ok => Built(PackKeys) < MaxFiles
           /\ packFiles' = IF ok THEN [packFiles EXCEPT ![key] = @ + 1]
                           ELSE packFiles
           /\ post' = [g \in Callers |->
                         IF g = h \/ g \in joined
                         THEN [post[g] EXCEPT
                                 !.pc = IF ok THEN "cached" ELSE "serve"]
                         ELSE post[g]]
    /\ UNCHANGED <<repoLocks, mirrorVars, serverVars, maintVars, lruVars, cacheVars>>

\* after Do: packCache.Load and servePackFile
ServeCached(h) ==
    /\ Settled
    /\ post[h].pc = "cached"
    /\ post' = [post EXCEPT
                  ![h].pc = "done",
                  ![h].resp = ServePackFile(
                      packFiles[CacheKey(post[h].req.repo, post[h].body)])]
    /\ UNCHANGED <<packFiles, repoLocks, mirrorVars, serverVars, maintVars,
                   lruVars, cacheVars>>

\* the fallback of handleUploadPack: gitserve.ServeUploadPack on the request
\* as it is now
Serve(h) ==
    /\ Settled
    /\ post[h].pc = "serve"
    /\ post' = [post EXCEPT
                  ![h].pc = "done",
                  ![h].resp = ServeUploadPack(post[h].req.gzip, post[h].body)]
    /\ UNCHANGED <<packFiles, repoLocks, mirrorVars, serverVars, maintVars,
                   lruVars, cacheVars>>

\* a return of handleUploadPack that leaves the repo mutex locked
FinishKeepsLock(h) ==
    /\ post[h].pc = "done"
    /\ post' = [post EXCEPT ![h] = IdlePost]
    /\ UNCHANGED <<packFiles, repoLocks, mirrorVars, serverVars, maintVars,
                   lruVars, cacheVars>>

\* handleUploadPack returns: the deferred lock.Unlock() runs
Finish(h) ==
    /\ post[h].pc = "done"
    /\ post' = [post EXCEPT ![h] = IdlePost]
    /\ repoLocks' = [r \in MoreRepos |->
                       IF repoLocks[r] = h THEN 0 ELSE repoLocks[r]]
    /\ UNCHANGED <<packFiles, mirrorVars, serverVars, maintVars, lruVars, cacheVars>>

PackInit ==
    /\ MirrorInitOn(MoreRepos)
    /\ \E e, z \in BOOLEAN :
          /\ e \/ z
          /\ cfg = [DefaultCfg EXCEPT !.rev = RevGitserve,
                                      !.enablePackCache = e,
                                      !.serializeUploadPack = z]
    /\ ServerInit
    /\ MaintInit
    /\ LruInit
    /\ PostInit
    /\ CacheInit

PackNext ==
    \/ \E h \in Callers, q \in PackRequests : Post(h, q)
    \/ \E h \in Callers : Do(h)
    \/ \E h \in Callers, ok \in BOOLEAN : BuildDone(h, ok)
    \/ \E h \in Callers : ServeCached(h)
    \/ \E h \in Callers : Serve(h)
    \/ \E h \in Callers : Finish(h)

PackSpec == PackInit /\ [][PackNext]_vars

----------------------------------------------------------------------------
(* The response cache (package cache): Writers, Commit with its eviction *)

CacheSizeBytes == 1    \* the maxBytes of a cache that evicts

\* the keys of the entries
EntryKeys == {"k1", "k2"}

\* Cache.entryPath: the file of an entry
EntryPath(k) == <<"entry", k>>

\* os.CreateTemp(dir, "*.tmp"): a name no other file has
TempPath(w) == <<"tmp", w>>

\* no Writer is between the end of Commit and its caller
CacheSettled == \A w \in Callers : writers[w].pc # "done"

\* The files under the root are kept in the order of their modification
\* times, oldest first (every change of a file happens at a later time than
\* the changes before it).
FileNames(F) == { F[i].name : i \in DOMAIN F }

FileAt(F, n) == F[CHOOSE i \in DOMAIN F : F[i].name = n]

\* os.Remove
Without(F, n) == SelectSeq(F, LAMBDA f : f.name # n)

\* a file is created or modified now
Touched(F, n, size) == Append(Without(F, n), [name |-> n, size |-> size])

\* os.Rename(temp, final): the file keeps its modification time and
\* replaces what was at the final path
Renamed(F, temp, final) ==
    LET G == Without(F, final)
    IN  [i \in DOMAIN G |-> IF G[i].name = temp
                             THEN [G[i] EXCEPT !.name = final] ELSE G[i]]

RECURSIVE TotalSize(_)
TotalSize(F) == IF F = <<>> THEN 0 ELSE Head(F).size + TotalSize(Tail(F))

\* (an eviction that removes the newest file first)
NewestFile(F) == F[Len(F)].name

\* the first file of the list evict sorts by modification time
OldestFile(F) == F[1].name

\* Cache.evict: nothing with maxBytes <= 0; otherwise every file under the
\* root is walked, the files are sorted by modification time and removed
\* from the oldest on while the total exceeds maxBytes
RECURSIVE EvictFiles(_)
EvictFiles(F) ==
    IF cfg.cacheSizeBytes <= 0 \/ TotalSize(F) <= cfg.cacheSizeBytes THEN F
    ELSE EvictFiles(Without(F, OldestFile(F)))

\* Cache.NewWriter: a temp file is created next to the entry
NewWriter(w, k) ==
    /\ CacheSettled
    /\ writers[w].pc = "idle"
    /\ \A v \in Callers : v < w => writers[v].pc # "idle"
    /\ writers' = [writers EXCEPT ![w] =
                     [IdleWriter EXCEPT !.pc = "open", !.final = EntryPath(k)]]
    /\ files' = Touched(files, TempPath(w), 0)
    /\ UNCHANGED <<mirrorVars, serverVars, maintVars, lruVars, packVars>>

\* Writer.Write: the body (one unit of size) goes to the open temp file;
\* the write succeeds also when the file was unlinked meanwhile
Write(w) ==
    /\ CacheSettled
    /\ writers[w].pc = "open"
    /\ writers[w].written = 0
    /\ writers' = [writers EXCEPT ![w].written = @ + 1]
    /\ files' = IF TempPath(w) \in FileNames(files)
                 THEN Touched(files, TempPath(w),
                              FileAt(files, TempPath(w)).size + 1)
                 ELSE files
    /\ UNCHANGED <<mirrorVars, serverVars, maintVars, lruVars, packVars>>

\* Writer.Commit: Sync, Close, os.Rename(temp, final), which fails when the
\* temp file is gone and makes Commit return the error; then Cache.evict
Commit(w) ==
    /\ CacheSettled
    /\ writers[w].pc = "open"
    /\ IF TempPath(w) \notin FileNames(files)
       THEN /\ writers' = [writers EXCEPT ![w].pc = "done", ![w].err = TRUE]
            /\ UNCHANGED files
       ELSE /\ writers' = [writers EXCEPT ![w].pc = "done"]
            /\ files' = EvictFiles(
                            Renamed(files, TempPath(w), writers[w].final))
    /\ UNCHANGED <<mirrorVars, serverVars, maintVars, lruVars, packVars>>

\* Writer.Abort: the temp file is closed and removed
Abort(w) ==
    /\ CacheSettled
    /\ writers[w].pc = "open"
    /\ writers' = [writers EXCEPT ![w] = IdleWriter]
    /\ files' = Without(files, TempPath(w))
    /\ UNCHANGED <<mirrorVars, serverVars, maintVars, lruVars, packVars>>

\* Commit has returned to its caller
Committed(w) ==
    /\ writers[w].pc = "done"
    /\ writers' = [writers EXCEPT ![w] = IdleWriter]
    /\ UNCHANGED <<files, mirrorVars, serverVars, maintVars, lruVars,
                   packVars>>

\* Cache.Get finds the entry: os.Chtimes sets its times to now and the
\* file is opened
Get(k) ==
    /\ CacheSettled
    /\ EntryPath(k) \in FileNames(files)
    /\ files[Len(files)].name # EntryPath(k)
    /\ files' = Touched(files, EntryPath(k), FileAt(files, EntryPath(k)).size)
    /\ UNCHANGED <<writers, mirrorVars, serverVars, maintVars, lruVars,
                   packVars>>

CacheSpecInit ==
    /\ MirrorInit
    /\ cfg \in { [DefaultCfg EXCEPT !.cacheSizeBytes = b] :
                   b \in {0, CacheSizeBytes} }
    /\ ServerInit
    /\ MaintInit
    /\ LruInit
    /\ PostInit
    /\ CacheInit

CacheNext ==
    \/ \E w \in Callers, k \in EntryKeys : NewWriter(w, k)
    \/ \E w \in Callers : Write(w)
    \/ \E w \in Callers : Commit(w)
    \/ \E w \in Callers : Abort(w)
    \/ \E w \in Callers : Committed(w)
    \/ \E k \in EntryKeys : Get(k)

CacheSpec == CacheSpecInit /\ [][CacheNext]_vars

----------------------------------------------------------------------------
(* Properties *)

Done(c) == call[c].pc = "done"
Ok(c)   == call[c].ret.err = NoErr

\* the caller is in the stale branch of EnsureRepo with a fetch assigned
InFetch(c) == call[c].pc \in {"syncing", "syncWait", "afterSync"}

\* the digest of h was never written to the auth cache by addAuthCache
NeverCached(h) == \A p \in insertedOn : p[1] # Sha1(h)

\* C1: concurrent EnsureRepo calls against a missing mirror share one clone.
\* At most one cloneRepo invocation per repo is running or has succeeded, a
\* completed mirror comes from exactly one invocation, every path EnsureRepo
\* returns is the repo's one mirror path, the callers that shared the
\* leader's successful clone return what the leader returns, and a call on a
\* completed mirror without sentinel always returns the path.
CloneOnce ==
    /\ \A r \in Repos : liveClones[r] <= 1
    /\ \A r \in Repos : dir[r] = "complete" => liveClones[r] = 1
    /\ \A c \in Callers :
          Done(c) /\ Ok(c) => call[c].ret.path = RepoPath(call[c].key)
    /\ \A c, d \in Callers :
          (/\ Done(c) /\ Done(d) /\ call[c].key = call[d].key
           /\ call[c].flight = "leader" /\ call[d].flight = "follower"
           /\ Ok(c))
          => Ok(d) /\ call[d].ret.path = call[c].ret.path
    /\ \A c \in Callers :
          (Done(c) /\ dir[call[c].key] = "complete"
                   /\ ~sentinel[call[c].key]) => Ok(c)

\* C1 witness: a leader and a caller that waited for its clone have both
\* returned the mirror path, after one clone.
CloneOnceWitness ==
    \E c, d \in Callers :
        /\ Done(c) /\ Done(d) /\ call[c].key = call[d].key
        /\ call[c].flight = "leader" /\ call[d].flight = "follower"
        /\ Ok(c) /\ Ok(d)
        /\ call[d].ret.path = RepoPath(call[c].key)
        /\ liveClones[call[c].key] = 1

\* C2: every path EnsureRepo returns refers to a mirror whose clone ran to
\* completion (never one left behind by a clone in progress, failed or
\* killed).
ReturnedMirrorComplete ==
    \A c \in Callers :
        Done(c) /\ call[c].ret.path # NoPath => dir[call[c].key] = "complete"

\* C3: calls for one key that all saw the mirror stale before any of them
\* finished use one and the same fetch.
OneFetchPerStaleGroup ==
    \A c, d \in Callers :
        (/\ InFetch(c) /\ InFetch(d) /\ call[c].key = call[d].key
         /\ dir[call[c].key] = "complete")
        => call[c].fetch = call[d].fetch

\* C4: a call that saw the existing mirror stale and whose fetch failed
\* returns (path, hit, nil), never sync.
FailedFetchReturnsHit ==
    \A c \in Callers :
        (/\ Done(c) /\ call[c].stale /\ call[c].syncErr = "err"
         /\ dir[call[c].key] = "complete")
        => /\ call[c].ret.path = RepoPath(call[c].key)
           /\ call[c].ret.status = StatusHit
           /\ call[c].ret.err = NoErr

\* C5: on a mirror with the sentinel, a call without Authorization header
\* made while the upstream answers 401 returns AuthRequired and no path,
\* fresh or stale.
NoAuthRejectedOnPrivate ==
    \A c \in Callers :
        (/\ Done(c) /\ call[c].sawAuth /\ call[c].hdr = NoAuth
         /\ call[c].up = StatusUnauthorized)
        => call[c].ret.err = ErrAuth /\ call[c].ret.path = NoPath

\* C6: stale mirror with the sentinel, fetch failed: the call returns
\* AuthRequired when the validation of its header rejects (the upstream
\* answers 401 or is unreachable and the digest is not in the cache).
FailedFetchStillValidates ==
    \A c \in Callers :
        (/\ Done(c) /\ call[c].stale /\ call[c].syncErr = "err"
         /\ RequiresAuth(call[c].key)
         /\ upstream \in {StatusUnauthorized, NetErr}
         /\ ~CacheHas(call[c].hdr))
        => call[c].ret.err = ErrAuth /\ call[c].ret.path = NoPath

\* C7: of the calls for one key that return together from a clone at most
\* one returns status clone; a call that waited on the in-flight clone
\* returns hit.
OnlyLeaderReturnsClone ==
    /\ \A c, d \in Callers :
          (c # d /\ Done(c) /\ Done(d) /\ call[c].key = call[d].key)
          => ~(call[c].ret.status = StatusClone
               /\ call[d].ret.status = StatusClone)
    /\ \A c \in Callers :
          (Done(c) /\ call[c].flight = "follower" /\ Ok(c))
          => call[c].ret.status = StatusHit

InsertedOnlyAfter2xx ==
    \A p \in insertedOn : p[2] >= 200 /\ p[2] < 300

\* C10: once some header was validated and the upstream is unreachable, a
\* call on a mirror with the sentinel succeeds when its digest is in the
\* cache and fails when its digest was never cached, fresh or stale.
OutageDecidedByCache ==
    \A c \in Callers :
        (/\ Done(c) /\ call[c].sawAuth /\ call[c].up = NetErr
         /\ insertedOn # {})
        => /\ call[c].cached => Ok(c)
           /\ NeverCached(call[c].hdr) => ~Ok(c)

----------------------------------------------------------------------------
(* Properties of the HTTP server (HandlerSpec) *)

\* the repo a request is for
RequestRepo(q) == TargetRepo(ResolveTarget(q.path))

\* the request is a git-upload-pack POST
IsUploadPack(q) == HasSuffix(q.path, <<"git-upload-pack">>)

\* the upstream asks for credentials and does not accept the request's
HasInvalidAuth(q) ==
    upstream = StatusUnauthorized /\ UpstreamAuth(q) \notin UpstreamAccepts

\* C11: every git-upload-pack POST answered with pack data ran EnsureRepo in
\* the same request, and a POST for a mirror with the sentinel whose
\* credentials the upstream does not accept is not answered with pack data.
UploadPackEnsured ==
    (resp # NoResp /\ IsUploadPack(resp.req) /\ resp.body = "pack")
    => /\ resp.ensured
       /\ ~(sentinel[RequestRepo(resp.req)] /\ HasInvalidAuth(resp.req))

\* the segments of a path that name the repository (what precedes the Git
\* endpoint)
RepoSegments(p) ==
    IF HasSuffix(p, <<"info", "refs">>) THEN Len(p) - 2
    ELSE IF HasSuffix(p, <<"git-upload-pack">>)
            \/ HasSuffix(p, <<"git-receive-pack">>) THEN Len(p) - 1
    ELSE Len(p)

\* the requests the interface rejects: host not allowed, no host/owner/repo
\* in the path, or a push
MustBeRejected(q) ==
    \/ RepoSegments(q.path) < 3
    \/ q.path[1] \notin AllowedUpstreams
    \/ HasSuffix(q.path, <<"git-receive-pack">>)

StatusHeaderOnEveryResponse ==
    (resp.code = StatusOK /\ resp.body \in {"refs", "pack"})
    => resp.status \in {StatusHit, StatusClone, StatusSync}

----------------------------------------------------------------------------
(* Properties of the maintenance and of the Git subprocesses (MaintSpec) *)

\* the environment isolates Git from the host's configuration
Isolated(env) ==
    /\ <<"GIT_CONFIG_GLOBAL", "/dev/null">> \in env
    /\ <<"GIT_CONFIG_SYSTEM", "/dev/null">> \in env

\* C14: every Git subprocess the proxy starts (clone, fetch, repack,
\* commit-graph write, multi-pack-index write) runs with
\* GIT_CONFIG_GLOBAL=/dev/null and GIT_CONFIG_SYSTEM=/dev/null.
EverySubprocessIsolated == \A p \in procs : Isolated(p.env)

\* what the proxy has written under the mirror root: the digests in the
\* auth cache file, the content of the sentinels, the config of the mirrors
DiskContents ==
    (IF authCache.present THEN authCache.digests ELSE {})
    \cup UNION { IF sentinel[r] THEN {"1"} ELSE {} : r \in Repos }
    \cup UNION { IF dir[r] # "absent"
                 THEN {"remote.origin.url=https://github.com/acme/app.git",
                       "remote.origin.mirror=true"}
                 ELSE {} : r \in Repos }

\* C15: no Authorization header value is on disk (auth cache, sentinel,
\* mirror config), and a Git subprocess gets the header in the variable
\* GIT_CONFIG_VALUE_0 of its environment only.
NoRawHeaderOnDisk ==
    \A h \in Headers \ {NoAuth} :
        /\ h \notin DiskContents
        /\ \A p \in procs : \A kv \in p.env :
               kv[2] = h => kv[1] = "GIT_CONFIG_VALUE_0"

\* C15 witness: a mirror was cloned with a header (sentinel written, the
\* header in the clone's environment) and a digest is in the auth cache.
NoRawHeaderWitness ==
    /\ authCache.present /\ authCache.digests # {}
    /\ \E r \in Repos : sentinel[r]
    /\ \E p \in procs :
          p.cmd = "clone" /\ <<"GIT_CONFIG_VALUE_0", GoodAuth>> \in p.env

\* a Git subprocess of the goroutine's optimizeRepo run is running
Optimizing(g) == opt[g].pc \in {"repack", "graph", "midx"}

\* C18: at most one optimizeRepo run is in progress for a mirror path.
OneOptimizePerMirror ==
    \A g, f \in Runners : g # f => ~(Optimizing(g) /\ Optimizing(f))

\* C22: a one-shot maintenance run ends with exit code 0 exactly when the
\* maintenance succeeded: the mirror was found and no optimisation step
\* (repack, commit-graph write, multi-pack-index write) failed.
ExitCodeTellsFailure ==
    \A g \in Runners :
        opt[g].pc = "exit" => (opt[g].code = 0 <=> ~opt[g].failed)

----------------------------------------------------------------------------
(* Cancellation and the followers of a flight, checked under Spec *)

\* the call runs a clone, a fetch or the auth probe itself
Leads(c) == call[c].pc \in {"cloning", "syncing", "authProbe"}

\* C19: a cancelled call that runs the clone, the fetch or the auth probe
\* as leader can always take the step that ends that operation without any
\* answer of the upstream, so that the call returns.
CancelTerminatesLeader ==
    \A c \in Callers :
        Quiet /\ Leads(c) /\ call[c].cancelled
            => ENABLED (CloneKilled(c) \/ SyncKilled(c))

\* the calls that run git clone, and git fetch, for the key
Cloning(r) == { c \in Callers : call[c].pc = "cloning" /\ call[c].key = r }
Syncing(r) == { c \in Callers : call[c].pc = "syncing" /\ call[c].key = r }

\* C20: a follower leaves an in-flight clone or fetch only together with
\* its leader and with the leader's result, success or error, whether or
\* not the follower's own context was cancelled meanwhile (a cancelled
\* leader's failure included); and one flight never has two subprocesses.
FollowersGetLeadersResult ==
    [][ /\ \A d \in Callers :
              call[d].pc = "cloneWait" /\ call'[d].pc # "cloneWait"
              => \E c \in Cloning(call[d].key) :
                    /\ call'[c].pc = "done"
                    /\ call'[d].pc = "done"
                    /\ call'[d].ret = call'[c].ret
        /\ \A d \in Callers :
              call[d].pc = "syncWait" /\ call'[d].pc # "syncWait"
              => \E c \in Syncing(call[d].key) :
                    /\ call'[c].pc = "afterSync"
                    /\ call'[d].pc = "afterSync"
                    /\ call'[d].syncErr = call'[c].syncErr
        /\ \A r \in Repos :
              /\ Cardinality(Cloning(r)') <= 1
              /\ Cardinality(Syncing(r)') <= 1 ]_vars

\* a follower whose context was cancelled while it waited returns with the
\* clone its leader made
CancelledFollowerWitness ==
    \E d \in Callers :
        /\ call[d].pc = "done"
        /\ call[d].flight = "follower"
        /\ call[d].cancelled
        /\ call[d].ret.err = NoErr

\* what a reader takes the auth cache file to hold (nothing when missing)
CachedDigests == IF authCache.present THEN authCache.digests ELSE {}

\* C23: every write of the auth cache file is one whole update of what the
\* file held just before: an insertion adds its digest and a removal takes
\* its digest away, and nothing else changes (no update of another call is
\* lost); a missing file counts as empty.
AuthCacheUpdatesSerialised ==
    [][ \A c \in Callers :
          call[c].pc = "authStore" /\ call'[c].pc # "authStore"
          => authCache'.digests =
                IF ProbeAccepts(call[c].up)
                THEN CachedDigests \cup {Sha1(call[c].hdr)}
                ELSE CachedDigests \ {Sha1(call[c].hdr)} ]_vars

\* C24: a call that finds the mirror on disk (and no clone of it in flight)
\* goes on to the fetch exactly when lastSync has no entry for the key or
\* now - lastSync is greater than staleAfter.
FetchIffStale ==
    [][ \A c \in Callers :
          LET k == call'[c].key IN
          (/\ call[c].pc = "idle" /\ call'[c].pc \notin {"idle", "cloneWait"}
           /\ dir[k] # "absent")
          => (call'[c].pc = "syncDo"
                <=> (lastSync[k] = NoTime \/ now - lastSync[k] > StaleAfter))
      ]_vars

\* a call has returned a hit without a fetch exactly staleAfter after the
\* last sync
FreshAtStaleAfterWitness ==
    \E c \in Callers :
        LET k == call[c].key IN
        /\ call[c].pc = "done"
        /\ call[c].ret = OkRet(k, StatusHit)
        /\ ~sentinel[k]
        /\ lastSync[k] # NoTime
        /\ now - lastSync[k] = StaleAfter

\* C26: lastSync of a key changes only in the step in which a clone of the
\* key has succeeded, or in which a call stores it after the fetch it ran
\* or shared returned without error.
LastSyncOnlyOnSuccess ==
    [][ \A r \in Repos :
          lastSync'[r] # lastSync[r]
          => \E c \in Callers :
                /\ call[c].key = r
                /\ \/ /\ call[c].pc = "cloning"
                      /\ call'[c].ret = OkRet(r, StatusClone)
                      /\ dir'[r] = "complete"
                   \/ call[c].pc = "afterSync" /\ call[c].syncErr = "nil"
      ]_vars

\* a call has returned after a failed fetch and the mirror is as stale as
\* it was
FailedFetchKeepsLastSyncWitness ==
    \E c \in Callers :
        LET k == call[c].key IN
        /\ call[c].pc = "done"
        /\ call[c].syncErr = "err"
        /\ lastSync[k] # NoTime
        /\ now - lastSync[k] > StaleAfter

\* C27: a mirror made by a clone with a non-empty authHeader has the
\* sentinel, one made by a clone with an empty authHeader has none, and the
\* sentinel of a mirror is never taken away while the directory is there.
SentinelFollowsClone ==
    [][ /\ \A c \in Callers :
              (call[c].pc = "cloning" /\ dir'[call[c].key] = "complete")
              => (sentinel'[call[c].key] <=> call[c].hdr # NoAuth)
        /\ \A r \in Repos :
              (sentinel[r] /\ dir'[r] # "absent") => sentinel'[r]
      ]_vars

----------------------------------------------------------------------------
(* Two keys and the evictor, checked under KeysSpec *)

\* the call is blocked inside Do behind the leader of a flight
Waits(c) == call[c].pc \in {"cloneWait", "syncWait"}

\* a step of the call's own (any step that is not a wait for a leader)
StepOf(c) ==
    \/ CloneSucceed(c, TRUE) \/ CloneFail(c)
    \/ SyncDo(c) \/ SyncSucceed(c) \/ SyncFail(c) \/ AfterSync(c)
    \/ AuthProbe(c) \/ AuthStore(c)

\* C21: no call depends on a call for another key. A call that waits,
\* waits behind a leader of its own key, and every other call in progress
\* can take a step whatever the calls for other keys do (a clone or fetch
\* of another key that never ends included).
DistinctKeysIndependent ==
    \A c \in Callers :
        Quiet =>
          /\ call[c].pc = "cloneWait" => Cloning(call[c].key) # {}
          /\ call[c].pc = "syncWait" => Syncing(call[c].key) # {}
          /\ (call[c].pc # "idle" /\ ~Waits(c)) => ENABLED StepOf(c)

\* a call for one key has returned its fresh clone while the clone of the
\* other key is still in progress
OtherKeyCompletesWitness ==
    \E c, d \in Callers :
        /\ call[d].pc = "cloning"
        /\ call[c].pc = "done"
        /\ call[c].key # call[d].key
        /\ call[c].ret = OkRet(call[c].key, StatusClone)

\* C25: for one key, at most one Git operation that writes the mirror is in
\* progress: never two clones, two fetches, or a clone next to a fetch.
OneWriterPerKey ==
    \A r \in MoreRepos : Cardinality(Cloning(r) \cup Syncing(r)) <= 1

----------------------------------------------------------------------------
(* Properties of the evictor, checked under EvictSpec *)

\* the mirrors a step removes from the disk by eviction
Removed == { k \in Keys : lru[k].dir = "present" /\ lru'[k].dir = "evicted" }

\* a run removes nothing when the total is within the budget, and it stops
\* removing as soon as the total fits
NoNeedlessRemoval ==
    /\ Total(lru) <= Budget => lru' = lru
    /\ Removed # {} => \E r \in Removed : Total(lru') + Size(r) > Budget

\* C16 as stated: a run of MaybeEvict removes mirrors in ascending
\* lastAccess order until the total size is at most the budget, and
\* removes nothing when the total is already within the budget.
EvictsDownToBudget ==
    [][ MaybeEvict =>
          /\ Total(lru') <= Budget
          /\ \A r \in Removed, e \in EvictableAny(lru') :
                lru[r].lastAccess <= lru[e].lastAccess
          /\ NoNeedlessRemoval ]_vars

\* C16 amended: a run of MaybeEvict removes the mirrors without an in-flight
\* slot in ascending lastAccess order until the total size is at most the
\* budget or every mirror left on disk holds an in-flight slot, in which
\* case the run stays pending for a retry; it removes nothing when the
\* total is already within the budget.
EvictsDownToBudgetOrInFlight ==
    [][ MaybeEvict =>
          /\ \/ Total(lru') <= Budget
             \/ Evictable(lru') = {} /\ evictPending'
          /\ \A r \in Removed, e \in Evictable(lru') :
                lru[r].lastAccess <= lru[e].lastAccess
          /\ NoNeedlessRemoval ]_vars

\* a run evicted the least recently used mirror and kept a more recent one,
\* and the total fits
EvictedOldestWitness ==
    /\ ~evictPending
    /\ Total(lru) <= Budget
    /\ \E r, e \in Keys :
          /\ lru[r].dir = "evicted"
          /\ lru[e].dir = "present"
          /\ lru[r].lastAccess < lru[e].lastAccess

----------------------------------------------------------------------------
(* Properties of the git-upload-pack POST, checked under PackSpec *)

\* the handlers serving a POST for repo r
Serving(r) == { h \in Callers : post[h].pc # "idle" /\ post[h].req.repo = r }

\* C28: with the cached-pack path enabled, a request that is not of the
\* shape (one want, deepen 1, no have) gets the response gitserve gives for
\* the request as it arrived, which is the response with the path disabled,
\* for plain and for gzip bodies
BypassSameAsDisabled ==
    \A h \in Callers :
        (post[h].pc = "done" /\ ~Eligible(post[h].req.payload))
            => post[h].resp = ServeUploadPack(post[h].req.gzip,
                                Bytes(post[h].req.gzip, post[h].req.payload))

\* C29: per cache key the cached file is built once, however the requests
\* interleave, and every eligible request answered from the cache gets the
\* bytes of that one file
BuiltOncePerKey ==
    /\ \A k \in PackKeys : packFiles[k] <= 1
    /\ \A h \in Callers :
          (post[h].pc = "done" /\ post[h].resp.from = "cache")
              => post[h].resp = ServePackFile(1)

\* C30: under serialize-upload-pack at most one POST per repo is being
\* served, the mutex of a repo is held only by the handler serving it (every
\* return released it), and a POST for a repo nobody serves can start
\* whatever is being served for other repos (once the handlers that wrote
\* their response have returned)
SerializedPerRepo ==
    cfg.serializeUploadPack =>
        \A r \in MoreRepos :
            /\ Cardinality(Serving(r)) <= 1
            /\ repoLocks[r] # 0 => Serving(r) = { repoLocks[r] }
            /\ (Settled /\ Serving(r) = {}
                  /\ \E h \in Callers : post[h].pc = "idle")
                  => ENABLED (\E h \in Callers, q \in PackRequests :
                                q.repo = r /\ Post(h, q))

\* two POSTs for different repos are served at once, each holding the mutex
\* of its repo
SerializedTwoKeysWitness ==
    /\ cfg.serializeUploadPack
    /\ \E h, g \in Callers :
          /\ post[h].pc = "serve" /\ post[g].pc = "serve"
          /\ post[h].req.repo # post[g].req.repo
          /\ repoLocks[post[h].req.repo] = h
          /\ repoLocks[post[g].req.repo] = g


----------------------------------------------------------------------------
(* More properties of the HTTP server, checked under HandlerSpec *)

MirrorDirs == { RepoPath(r) : r \in { k \in DOMAIN dir : dir[k] # "absent" } }

\* the upstream repository a path names: what precedes the Git endpoint,
\* without the .git suffix
UpstreamRepo(p) == TrimGit(SubSeq(p, 1, RepoSegments(p)))

\* C32: the requests for github.com/acme/app, with or without .git, for
\* info/refs or git-upload-pack, shallow or not, all resolve to the one key
\* and so to the one mirror path <root>/github.com/acme/app.git, and no
\* other mirror directory ever exists for the repository.
SingleMirrorPath ==
    /\ \A q \in Requests :
          (~ResolveTarget(q.path).err
             /\ UpstreamRepo(q.path) = <<"github.com", "acme", "app">>)
              => RepoPath(RequestRepo(q))
                   = <<Root, "github.com", "acme", "app", ".git">>
    /\ MirrorDirs \subseteq { <<Root, "github.com", "acme", "app", ".git">> }

\* the mirror exists and a request with the .git suffix was answered from
\* it after one without the suffix stored a status
SingleMirrorWitness ==
    /\ MirrorDirs = { <<Root, "github.com", "acme", "app", ".git">> }
    /\ resp # NoResp
    /\ resp.code = StatusOK
    /\ resp.req.path = <<"github.com", "acme", "app.git", "info", "refs">>
    /\ resp.status = StatusHit


\* C39: requests that name different upstream repositories resolve to
\* different (host, owner, repo) keys, nested groups included.
DistinctReposDistinctKeys ==
    \A q1, q2 \in Requests :
        (/\ ~ResolveTarget(q1.path).err
         /\ ~ResolveTarget(q2.path).err
         /\ UpstreamRepo(q1.path) # UpstreamRepo(q2.path))
            => RequestRepo(q1) # RequestRepo(q2)


----------------------------------------------------------------------------
(* Properties of the response cache, checked under CacheSpec *)

\* w returns from Commit without an error in this step
Commits(w) ==
    writers[w].pc = "open" /\ writers'[w].pc = "done" /\ ~writers'[w].err

WritersUnharmedByEviction ==
    [][ /\ \A w \in Callers :
            (writers[w].pc = "open" /\ writers'[w].pc = "open"
               /\ TempPath(w) \in FileNames(files))
                => TempPath(w) \in FileNames(files')
        /\ \A w \in Callers :
            (writers[w].pc = "open" /\ writers'[w].pc = "done")
                => ~writers'[w].err
        /\ \A k \in EntryKeys :
            (EntryPath(k) \notin FileNames(files)
               /\ EntryPath(k) \in FileNames(files'))
                => \E w \in Callers :
                      Commits(w) /\ writers[w].final = EntryPath(k) ]_vars


----------------------------------------------------------------------------
(* More properties of the maintenance *)

\* the subprocesses of optimizeRepo, by the step that waits for them
StepProc(pc) ==
    CASE pc = "repack" -> Proc("repack", InheritedEnv)
      [] pc = "graph"  -> Proc("commit-graph", InheritedEnv)
      [] pc = "midx"   -> Proc("multi-pack-index", InheritedEnv)

\* C34 (checked under OneShotSpec): a run that finds a commit-graph write
\* in progress (the lock file) ends without starting a subprocess;
\* otherwise a full run goes repack, commit-graph, multi-pack-index and a
\* light run commit-graph, multi-pack-index, each step following the one
\* before it whether that one failed or not.
OptimizeStepsInOrder ==
    [][ \A g \in Runners :
          (InOptimize(g) /\ opt'[g].pc # opt[g].pc) =>
            /\ opt'[g].pc =
                  CASE opt[g].pc = "lockCheck" ->
                         IF \E f \in Runners : opt[f].pc = "graph"
                         THEN (IF opt'[g].pc \in {"idle", "exit"}
                               THEN opt'[g].pc ELSE "idle")
                         ELSE IF opt[g].full THEN "repack" ELSE "graph"
                    [] opt[g].pc = "repack" -> "graph"
                    [] opt[g].pc = "graph"  -> "midx"
                    [] opt[g].pc = "midx" ->
                         (IF opt'[g].pc \in {"idle", "exit"}
                          THEN opt'[g].pc ELSE "idle")
            /\ procs' = IF opt'[g].pc \in {"repack", "graph", "midx"}
                        THEN procs \cup {StepProc(opt'[g].pc)}
                        ELSE procs ]_vars

\* a full run is at its last step after an earlier step of it failed
FailedStepFollowedWitness ==
    \E g \in Runners :
        opt[g].pc = "midx" /\ opt[g].full /\ opt[g].failed


\* a goroutine was started by scheduleOptimize in this step
Schedules(g) == opt[g].pc = "idle" /\ opt'[g].via = "schedule"

----------------------------------------------------------------------------
(* More properties of EnsureRepo, checked under Spec *)

\* the call got its result from another caller's clone or fetch
SharedFlight(c) ==
    call[c].flight = "follower" \/ call[c].fetch \notin {0, c}

\* C36: a call that shared another caller's clone or fetch is handed a
\* mirror with the sentinel only when its own header is one the upstream
\* accepts, the upstream asking for credentials.
FollowerAuthChecked ==
    \A c \in Callers :
        (/\ call[c].pc = "done"
         /\ call[c].ret.err = NoErr
         /\ SharedFlight(c)
         /\ sentinel[call[c].key]
         /\ call[c].up = StatusUnauthorized)
            => call[c].hdr \in UpstreamAccepts

\* the clone that caller c leads ends with an error in this step
CloneFails(c) ==
    /\ call[c].pc = "cloning"
    /\ call'[c].pc = "done"
    /\ call'[c].ret.err # NoErr

\* C37: when the clone fails, the leader and every follower of that clone
\* return the error with an empty path and an empty status, lastSync and
\* the sentinel stay as they were, no optimisation is scheduled and nothing
\* is evicted, and the next EnsureRepo for the key starts a new clone (it
\* finds the repo missing).
FailedCloneLeavesNothing ==
    [][ \A c \in Callers :
          CloneFails(c) =>
            LET r == call[c].key IN
            /\ \A d \in {c} \cup CloneWaiters(r) :
                  /\ call'[d].pc = "done"
                  /\ call'[d].ret = ErrRet(call'[c].ret.err)
            /\ lastSync'[r] = lastSync[r]
            /\ sentinel'[r] = sentinel[r]
            /\ UNCHANGED <<maintVars, lruVars>>
            /\ RepoMissing(r)' ]_vars

\* C37 without its last part: what the failed clone returns and records
FailedCloneReturnsError ==
    [][ \A c \in Callers :
          CloneFails(c) =>
            LET r == call[c].key IN
            /\ \A d \in {c} \cup CloneWaiters(r) :
                  /\ call'[d].pc = "done"
                  /\ call'[d].ret = ErrRet(call'[c].ret.err)
            /\ lastSync'[r] = lastSync[r]
            /\ sentinel'[r] = sentinel[r]
            /\ UNCHANGED <<maintVars, lruVars>> ]_vars

\* EnsureRepo under the proviso that every Git subprocess and every probe of
\* the upstream terminates, and that a goroutine that can go on does.
Terminates(c) ==
    \/ \E marked \in BOOLEAN : CloneSucceed(c, marked)
    \/ CloneFail(c)
    \/ SyncSucceed(c)
    \/ SyncFail(c)
    \/ AuthProbe(c)

Proceeds(c) == SyncDo(c) \/ AfterSync(c) \/ AuthStore(c) \/ Return(c)

\* the calls, their cancellations and the clock, against an upstream whose
\* answer (any of ProbeAnswers) stays what it was at the start
LiveNext ==
    \/ \E c \in Callers, r \in Repos, h \in Headers : Start(c, r, h)
    \/ \E c \in Callers, marked \in BOOLEAN : CloneSucceed(c, marked)
    \/ \E c \in Callers : CloneFail(c)
    \/ \E c \in Callers : Cancel(c)
    \/ \E c \in Callers : CloneKilled(c)
    \/ \E c \in Callers : SyncKilled(c)
    \/ \E c \in Callers : SyncDo(c)
    \/ \E c \in Callers : SyncSucceed(c)
    \/ \E c \in Callers : SyncFail(c)
    \/ \E c \in Callers : AfterSync(c)
    \/ \E c \in Callers : AuthProbe(c)
    \/ \E c \in Callers : AuthStore(c)
    \/ \E c \in Callers : Return(c)
    \/ Tick

LiveSpec ==
    /\ Init /\ [][LiveNext]_vars
    /\ \A c \in Callers : WF_vars(Terminates(c)) /\ WF_vars(Proceeds(c))

\* the callers whose operation the call waits for
WaitsFor(c) ==
    IF call[c].pc = "cloneWait" THEN Cloning(call[c].key)
    ELSE IF call[c].pc = "syncWait" THEN Syncing(call[c].key)
    ELSE {}

\* C38: provided every Git subprocess and every upstream probe terminates,
\* every EnsureRepo call returns. A call that waits in the sync slot holds
\* no clone slot, a follower waits for a leader whose operation is in
\* flight (a leader waits for nobody, so that no waiting cycle exists), and
\* every call that was started reaches its return.
EveryCallReturns ==
    /\ [](\A c \in Callers :
            /\ call[c].pc \in {"syncDo", "syncWait", "syncing"}
                  => c \notin Cloning(call[c].key)
            /\ Waits(c) =>
                  /\ WaitsFor(c) # {}
                  /\ \A d \in WaitsFor(c) : ~Waits(d))
    /\ \A c \in Callers : (call[c].pc # "idle") ~> (call[c].pc = "done")

\* C38 witness: two calls have returned, one after it waited behind the
\* other's fetch.
WaitedAndReturnedWitness ==
    \E c, d \in Callers :
        /\ c # d
        /\ call[c].pc = "done"
        /\ call[c].fetch = d
        /\ call[d].pc \in {"afterSync", "done"}

====
